---- MODULE Spec2Model ----
(***************************************************************************)
(* Background processor of the AI Personal Health Companion                *)
(* (src/src/processor/processor.py, class HealthDataProcessor).            *)
(*                                                                         *)
(* The processor is one asyncio event loop running long-lived tasks.  All  *)
(* collaborator calls (Cosmos containers, blob storage, vision, OpenAI)    *)
(* are synchronous, so a task gives up the event loop only at its          *)
(* asyncio.sleep: `cur` names the task that holds the loop.  Time is in    *)
(* seconds.  `clock` is the monotonic clock asyncio.sleep counts on;       *)
(* datetime.utcnow() reads the system wall clock, clock + skew, which a    *)
(* time synchronisation may set back.                                      *)
(***************************************************************************)
EXTENDS Integers, Sequences, FiniteSets, TLC

\* ------------------------------------------------------------------ bounds
MaxItems == 2         \* WorkItems (of either kind) the ingestion path submits
MaxUsers == 2         \* distinct users
CallSeconds == 1      \* time one item's (or one user's) blocking calls take
Horizon == 65         \* seconds of behaviour explored after the daily slot opens
MaxFailures == 1      \* analyses, queries and insight generations in which a call raises
MaxClockSteps == 1    \* wall-clock adjustments in one behaviour
MaxStepBack == 2      \* seconds one adjustment sets the wall clock back
MaxHistory == 6       \* food items one user has when the weekly job is followed
MaxSwept == 2         \* position, in a cleanup loop, of the delete that may raise
MaxMessages == 2      \* notification messages sent to the queue
MaxDeliveries == 2    \* deliveries of a message before the queue dead-letters it

\* ------------------------------------------------------- program constants
DrainSleep == 60      \* asyncio.sleep(60) of process_pending_analyses
DailySleep == 60      \* asyncio.sleep(60) of generate_daily_insights
DailyHour == 6        \* current_time.hour == 6
DailyMinute == 0      \* current_time.minute == 0
ActiveDays == 30      \* timedelta(days=30)
RecentDays == 7       \* timedelta(days=7)
TrendSleep == 3600    \* asyncio.sleep(3600) of health_trend_analysis
TrendWeekday == 6     \* current_time.weekday() == 6 (Sunday)
TrendHour == 8        \* current_time.hour == 8
TrendDays == 90       \* timedelta(days=90)
MinFoodHistory == 5   \* len(food_history) < 5
CleanupSleep == 3600  \* asyncio.sleep(3600) of cleanup_old_data
CleanupDay == 1       \* current_time.day == 1
CleanupHour == 2      \* current_time.hour == 2
FoodRetentionDays == 730      \* timedelta(days=730)
MedicalRetentionDays == 1095  \* timedelta(days=1095)
BusErrorSleep == 30   \* asyncio.sleep(30) of process_service_bus_messages

FoodIds == 1..MaxItems
MedicalIds == 1..MaxItems
Users == 1..MaxUsers
Kinds == {"food", "medical"}
Items == ({"food"} \X FoodIds) \cup ({"medical"} \X MedicalIds)
\* the tasks start() may create, and those of the item pipeline
TaskNames == {"drainer", "daily", "cleanup", "trend", "bus"}
PipelineTasks == {"drainer", "daily"}

\* datetime fields of a time in seconds
Hour(t) == (t \div 3600) % 24
Minute(t) == (t \div 60) % 60
Date(t) == t \div 86400
Days(n) == n * 86400
\* datetime.day, for the times of the first quarter of 1970
DayOfMonth(t) ==
    IF Date(t) < 31 THEN Date(t) + 1
    ELSE IF Date(t) < 59 THEN Date(t) - 30 ELSE Date(t) - 58
\* datetime.weekday(): Monday is 0; 1970-01-01 was a Thursday
Weekday(t) == (Date(t) + 3) % 7

\* the first second of the daily slot of date d, and the first second after it
SlotStart(d) == Days(d) + DailyHour * 3600 + DailyMinute * 60
SlotEnd(d) == SlotStart(d) + 60

\* the first second of the weekly window of week w (the Sunday of date 3 + 7w)
TrendSlotStart(w) == Days(3 + 7 * w) + TrendHour * 3600

\* the first second of the monthly window of January 1970
CleanupSlotStart == CleanupHour * 3600

\* the blob containers, in the order cleanup_old_blobs sweeps them
ContainerNames == <<"food-images", "medical-documents">>

\* the instants the process may be started at
StartTimes == {SlotStart(0) - 1, SlotStart(0)}

VARIABLES
    running,                    \* self.running
    clock,                      \* monotonic clock (seconds)
    skew,                       \* wall clock minus monotonic clock
    clockSteps,                 \* wall-clock adjustments so far
    startedAt,                  \* <<utcnow at start()>>, <<>> before
    status,                     \* task -> "new" | "waiting" | "done"
    wake,                       \* task -> monotonic time its sleep ends
    cur,                        \* the task holding the event loop, or "none"
    food_container,             \* FoodHistory: id -> document
    medical_container,          \* MedicalRecords: id -> document
    recommendations_container,  \* Recommendations: id -> document
    submitted,                  \* kind -> number of items ingested so far
    pending_food,               \* the drainer's query snapshot (food)
    pending_medical,            \* the drainer's query snapshot (medical)
    pc,                         \* drainer position: "idle" | "food" | "medical"
    pos,                        \* index of the next item in the current list
    aborted,                    \* the last drainer iteration ended in its except
    processed,                  \* items processed in this iteration, in order
    upsertLog,                  \* upsert calls of this iteration, in order
    fetches,                    \* item -> download_blob calls so far
    gateway,                    \* item -> vision/OpenAI invocations so far
    faulted,                    \* item -> faults its processing has hit
    failures,                   \* analyses, queries, generations that hit a raising call
    dailyEvals,                 \* utcnow of every evaluation of the daily trigger
    dailyRuns,                  \* utcnow of every run of the daily job body
    insightLog,                 \* the calls of generate_user_daily_insights, in order
    deadline,                   \* the end of the explored time
    trendEvals,                 \* utcnow of every evaluation of the weekly trigger
    trendRuns,                  \* utcnow of every run of the weekly job body
    trendLog,                   \* the calls of analyze_user_health_trends, in order
    blobs,                      \* blob container name -> blob name -> properties
    cleanupEvals,               \* utcnow of every evaluation of the monthly trigger
    cleanupRuns,                \* utcnow of every run of the cleanup body
    swept,                      \* <<the last cleanup run: what it found and did>>
    queue,                      \* the messages of health-notifications, in order
    sent,                       \* messages sent to the queue so far
    busLog,                     \* what was done with each received message, in order
    servicebus_client           \* SERVICE_BUS_CONNECTION_STRING is set: a client exists

vars == <<running, clock, skew, clockSteps, startedAt, status, wake, cur,
          food_container, medical_container, recommendations_container,
          submitted, pending_food, pending_medical, pc, pos, aborted,
          processed, upsertLog, fetches, gateway, faulted, failures,
          dailyEvals, dailyRuns, insightLog, deadline, trendEvals, trendRuns,
          trendLog, blobs, cleanupEvals, cleanupRuns, swept, queue, sent, busLog,
          servicebus_client>>

timeVars == <<clock, skew, clockSteps>>
envVars == <<submitted, failures>>
storeVars == <<food_container, medical_container>>
drainVars == <<pending_food, pending_medical, pc, pos, aborted, processed,
               upsertLog, fetches, gateway, faulted>>
dailyVars == <<dailyEvals, dailyRuns, recommendations_container, insightLog>>
trendVars == <<trendEvals, trendRuns, trendLog>>
cleanupVars == <<blobs, cleanupEvals, cleanupRuns, swept>>
busVars == <<queue, sent, busLog, servicebus_client>>
jobVars == <<deadline, trendVars, cleanupVars, busVars>>

\* the end of the explored time
EndOfTime == deadline

\* datetime.utcnow()
UtcNow == clock + skew

\* ------------------------------------------------------------- containers
\* container.upsert_item(doc): a single atomic document replace
Upsert(container, doc) ==
    [x \in DOMAIN container \cup {doc.id} |->
        IF x = doc.id THEN doc ELSE container[x]]

Container(kind) == IF kind = "food" THEN food_container ELSE medical_container

\* the owner of an ingested item (its partition key)
UserOf(kind, id) ==
    IF kind = "food" THEN ((id - 1) % MaxUsers) + 1 ELSE (id % MaxUsers) + 1

\* all orderings of the documents in set S
Orderings(S) ==
    {s \in [1..Cardinality(S) -> S] : \A i, j \in 1..Cardinality(S) : i # j => s[i] # s[j]}

\* the orderings of the documents of S by ascending timestamp
AscendingByTimestamp(S) ==
    {s \in Orderings(S) : \A i, j \in 1..Len(s) : i < j => s[i].timestamp <= s[j].timestamp}

\* mutant: the query without its WHERE c.status = 'pending'
QueryAllAsc(container) ==
    AscendingByTimestamp({container[x] : x \in DOMAIN container})

\* mutant: the query with ORDER BY c.timestamp DESC
QueryPendingDesc(container) ==
    LET hits == {container[x] : x \in {y \in DOMAIN container : container[y].status = "pending"}}
    IN {s \in Orderings(hits) :
            \A i, j \in 1..Len(s) : i < j => s[i].timestamp >= s[j].timestamp}

\* mutant: the query without its ORDER BY
QueryPendingUnordered(container) ==
    Orderings({container[x] : x \in {y \in DOMAIN container : container[y].status = "pending"}})

\* "SELECT * FROM c WHERE c.status = 'pending' ORDER BY c.timestamp ASC":
\* the possible results (documents with equal timestamps come in any order)
QueryPendingAsc(container) ==
    AscendingByTimestamp(
        {container[x] : x \in {y \in DOMAIN container : container[y].status = "pending"}})

\* ---------------------------------------------------------- the event loop
\* mutant: a task whose sleep has ended is resumed although another task has
\* not reached its own sleep yet
RunnableWhileHeld(t) ==
    /\ status[t] = "waiting"
    /\ wake[t] <= clock
    /\ \A u \in TaskNames : status[u] = "waiting" => wake[t] <= wake[u]

\* the event loop is free, t's sleep has ended, and no timer ends before t's
Runnable(t) ==
    /\ cur = "none"
    /\ status[t] = "waiting"
    /\ wake[t] <= clock
    /\ \A u \in TaskNames : status[u] = "waiting" => wake[t] <= wake[u]

\* await asyncio.sleep(seconds), called by task t at monotonic time now
Sleep(t, seconds, now) ==
    /\ wake' = [wake EXCEPT ![t] = now + seconds]
    /\ cur' = "none"

\* ------------------------------------------------- a single item's analysis
\* the call of the try block that raises ("none": no call raises)
Faults == {"none", "download", "inference", "parse", "upsert"}

\* mutant: the try block's item.update without 'processedAt'
CompletedWithoutProcessedAt(item, t) ==
    [item EXCEPT !.status = "completed", !.hasResult = TRUE]

\* mutant: the except block's item.update without 'error'
FailedWithoutError(item, e, t) ==
    [item EXCEPT !.status = "failed", !.processedAt = <<t>>]

\* the analysis results merged into the item, status completed (item.update)
Completed(item, t) ==
    [item EXCEPT !.status = "completed", !.hasResult = TRUE, !.processedAt = <<t>>]

\* the except block's item.update: status failed, error str(e), processedAt
Failed(item, e, t) ==
    [item EXCEPT !.status = "failed", !.error = <<e>>, !.processedAt = <<t>>]

\* mutant: the except block updates the item but does not upsert it
AnalyseWithoutHandlerUpsert(item, fault, hfault, t) ==
    LET done == Completed(item, t)
    IN [calls |-> IF fault = "none" THEN <<[doc |-> done, applied |-> TRUE]>>
                  ELSE IF fault = "upsert" THEN <<[doc |-> done, applied |-> FALSE]>>
                  ELSE <<>>,
        downloads |-> 1,
        invocations |-> IF fault = "download" THEN 0 ELSE 1,
        raised |-> FALSE]

\* One run of process_food_analysis / process_medical_analysis on `item`, where
\* the call named by `fault` raises and, when hfault, the except block's upsert
\* raises too.  Gives the upsert calls issued in order (document, applied or
\* raised), the download and gateway calls made, and whether an exception
\* leaves the function.
Analyse(item, fault, hfault, t) ==
    LET done == Completed(item, t)
        dict == IF fault = "upsert" THEN done ELSE item
        first == IF fault = "none" THEN <<[doc |-> done, applied |-> TRUE]>>
                 ELSE IF fault = "upsert" THEN <<[doc |-> done, applied |-> FALSE]>>
                 ELSE <<>>
        handler == IF fault = "none" THEN <<>>
                   ELSE <<[doc |-> Failed(dict, fault, t), applied |-> ~hfault]>>
    IN [calls |-> first \o handler,
        downloads |-> 1,
        invocations |-> IF fault = "download" THEN 0 ELSE 1,
        raised |-> fault # "none" /\ hfault]

process_food_analysis(item, fault, hfault, t) == Analyse(item, fault, hfault, t)

process_medical_analysis(item, fault, hfault, t) == Analyse(item, fault, hfault, t)

\* whether a call raises in such a run (1) or none does (0)
Cost(fault, hfault) == IF fault = "none" THEN 0 ELSE 1

\* a container after the upsert calls of `calls` that did not raise
RECURSIVE ApplyUpserts(_, _)
ApplyUpserts(container, calls) ==
    IF calls = <<>> THEN container
    ELSE ApplyUpserts(IF Head(calls).applied THEN Upsert(container, Head(calls).doc)
                      ELSE container,
                      Tail(calls))

\* ------------------------------------------------------------ construction
EmptyContainer == [x \in {} |-> x]

\* blob containers without a blob
NoBlobs == [c \in {ContainerNames[i] : i \in 1..Len(ContainerNames)} |-> EmptyContainer]

\* no WorkItem has been ingested yet
EmptyStore ==
    /\ food_container = EmptyContainer
    /\ medical_container = EmptyContainer
    /\ blobs = NoBlobs

\* HealthDataProcessor(): self.running = False; no task created
Constructed ==
    /\ running = FALSE
    /\ skew = 0
    /\ clockSteps = 0
    /\ startedAt = <<>>
    /\ status = [t \in TaskNames |-> "new"]
    /\ wake = [t \in TaskNames |-> 0]
    /\ cur = "none"
    /\ recommendations_container = EmptyContainer
    /\ submitted = [k \in Kinds |-> 0]
    /\ pending_food = <<>>
    /\ pending_medical = <<>>
    /\ pc = "idle"
    /\ pos = 1
    /\ aborted = FALSE
    /\ processed = <<>>
    /\ upsertLog = <<>>
    /\ fetches = [i \in Items |-> 0]
    /\ gateway = [i \in Items |-> 0]
    /\ faulted = [i \in Items |-> {}]
    /\ dailyEvals = <<>>
    /\ dailyRuns = <<>>
    /\ insightLog = <<>>
    /\ trendEvals = <<>>
    /\ trendRuns = <<>>
    /\ trendLog = <<>>
    /\ cleanupEvals = <<>>
    /\ cleanupRuns = <<>>
    /\ swept = <<>>
    /\ queue = <<>>
    /\ sent = 0
    /\ busLog = <<>>

\* The process is started as the daily slot opens; collaborator calls raise
\* in up to MaxFailures analyses, queries or insight generations.
Init ==
    /\ Constructed
    /\ EmptyStore
    /\ deadline = SlotStart(0) + Horizon
    /\ clock = SlotStart(0)
    /\ failures = 0
    /\ servicebus_client = TRUE

\* The process is started around the opening of the daily slot; no
\* collaborator call raises, and the wall clock may be adjusted.
InitClock ==
    /\ Constructed
    /\ EmptyStore
    /\ deadline = SlotStart(0) + Horizon
    /\ clock \in StartTimes
    /\ failures = MaxFailures
    /\ servicebus_client = TRUE

\* a WorkItem ingested and analysed at time ts
StoredItem(id, user_id, ts, type) ==
    [id |-> id, userId |-> user_id, timestamp |-> ts, type |-> type,
     status |-> "completed", hasResult |-> TRUE, error |-> <<>>, processedAt |-> <<ts>>]

\* the ages of a user's food history when the weekly job is followed: of the
\* last 30 days, older but of the last 90 days, older than 90 days
HistoryAges == {Days(1), Days(ActiveDays + 1), Days(TrendDays + 1)}

\* the numbers of food items a user has when the weekly job is followed:
\* none, one less than the minimum, the minimum, more
HistorySizes == {0, MinFoodHistory - 1, MinFoodHistory, MaxHistory}

\* a FoodHistory container where user u has n[u] items, all of the given age at time now
FoodHistory(n, age, now) ==
    [x \in UNION {{(u - 1) * MaxHistory + k : k \in 1..n[u]} : u \in Users} |->
        LET u == ((x - 1) \div MaxHistory) + 1
        IN StoredItem(x, u, now - age, "food_analysis")]

\* a MedicalRecords container where the users of `having` have one item of the given age
MedicalHistory(having, age, now) ==
    [u \in having |-> StoredItem(u, u, now - age, "medical_document")]

\* The process is started as the weekly window opens, over the history of
\* users who have up to MaxHistory food items and possibly a recent medical
\* record.
TrendHistory ==
    /\ Constructed
    /\ clock = TrendSlotStart(0)
    /\ deadline = TrendSlotStart(0) + TrendSleep + Horizon
    /\ \E n \in [Users -> HistorySizes], age \in HistoryAges, having \in SUBSET Users :
          /\ food_container = FoodHistory(n, age, clock)
          /\ medical_container = MedicalHistory(having, Days(1), clock)
    /\ blobs = NoBlobs
    /\ servicebus_client = TRUE

\* collaborator calls raise in up to MaxFailures analyses or queries
InitTrend == TrendHistory /\ failures = 0

\* no collaborator call raises, and the wall clock may be adjusted
InitTrendClock == TrendHistory /\ failures = MaxFailures

\* the instants the process is started at when both insight jobs are
\* followed: as the daily slot opens, as the weekly window opens
JobTimes == {SlotStart(0), TrendSlotStart(0)}

\* the numbers of food items a user has when both insight jobs are followed:
\* none, or the minimum the trend analysis asks for
JobSizes == {0, MinFoodHistory}

\* The process is started as the slot of one of the insight jobs opens, over
\* the history of users who have no food item or MinFoodHistory items of the
\* last day, and who all or none have a recent medical record; collaborator
\* calls raise in up to MaxFailures analyses or queries.
InitJobs ==
    /\ Constructed
    /\ clock \in JobTimes
    /\ deadline = clock + Horizon
    /\ failures = 0
    /\ \E n \in [Users -> JobSizes], having \in {{}, Users} :
          /\ food_container = FoodHistory(n, Days(1), clock)
          /\ medical_container = MedicalHistory(having, Days(1), clock)
    /\ blobs = NoBlobs
    /\ servicebus_client = TRUE

\* the ages of a user's items when the daily job is followed: of the last 7
\* days, older but of the last 30 days, older than 30 days
InsightAges == {Days(1), Days(RecentDays + 1), Days(ActiveDays + 1)}

\* The process is started as the daily slot opens, over a store where each
\* user has at most one food item and one medical item.
RecentHistory ==
    /\ Constructed
    /\ clock = SlotStart(0)
    /\ deadline = SlotStart(0) + Horizon
    /\ \E n \in [Users -> 0..1], food_age \in InsightAges,
          having \in SUBSET Users, medical_age \in InsightAges :
          /\ food_container = FoodHistory(n, food_age, clock)
          /\ medical_container = MedicalHistory(having, medical_age, clock)
    /\ blobs = NoBlobs
    /\ servicebus_client = TRUE

\* collaborator calls raise in up to MaxFailures generations or queries
InitDaily == RecentHistory /\ failures = 0

\* no collaborator call raises, and the wall clock may be adjusted
InitDailyClock == RecentHistory /\ failures = MaxFailures

\* the ages of the stored items, by item id, when the cleanup task is
\* followed: around the retention windows of their kinds
SweptFoodAges ==
    <<Days(FoodRetentionDays) - Days(1), Days(FoodRetentionDays),
      Days(FoodRetentionDays) + 1, Days(FoodRetentionDays) + Days(1)>>
SweptMedicalAges ==
    <<Days(MedicalRetentionDays), Days(MedicalRetentionDays) + 1,
      Days(MedicalRetentionDays), Days(MedicalRetentionDays) + 1>>
SweptMedicalTypes == <<"medical_document", "medical_document", "critical", "critical">>
SweptBlobAges == <<Days(FoodRetentionDays), Days(FoodRetentionDays) + 1>>

\* The process is started as the monthly window opens, over a store of items
\* and blobs aged around the retention windows.  The blobs' last_modified,
\* given by the storage client library, carry a time zone or do not.
InitCleanup ==
    /\ Constructed
    /\ clock = CleanupSlotStart
    /\ failures = 0
    /\ servicebus_client = TRUE
    /\ deadline = CleanupSlotStart + CleanupSleep + Horizon
    /\ \E foods \in SUBSET (1..Len(SweptFoodAges)),
          medicals \in SUBSET (1..Len(SweptMedicalAges)),
          held \in [1..Len(ContainerNames) -> SUBSET (1..Len(SweptBlobAges))],
          aware \in BOOLEAN :
          /\ food_container =
                [x \in foods |-> StoredItem(x, 1, clock - SweptFoodAges[x], "food_analysis")]
          /\ medical_container =
                [x \in medicals |->
                    StoredItem(x, 1, clock - SweptMedicalAges[x], SweptMedicalTypes[x])]
          /\ blobs = [c \in DOMAIN NoBlobs |->
                        LET i == CHOOSE n \in 1..Len(ContainerNames) : ContainerNames[n] = c
                        IN [b \in held[i] |->
                               [last_modified |-> clock - SweptBlobAges[b], aware |-> aware]]]

\* a WorkItem ingested at time ts and not analysed yet
PendingItem(id, user_id, ts, type) ==
    [id |-> id, userId |-> user_id, timestamp |-> ts, type |-> type,
     status |-> "pending", hasResult |-> FALSE, error |-> <<>>, processedAt |-> <<>>]

\* what a food item is when the drainer and the cleanup task are followed
\* together: not stored, pending and past the retention window, pending and
\* recent, or analysed and recent
SharedItems == {"absent", "old_pending", "pending", "completed"}

\* the stored medical items when the drainer and the cleanup task are followed
\* together: none, or one that is pending and past its retention window
SharedMedicalIds == {{}, {1}}

\* The process is started as the monthly window opens, over a store where
\* WorkItems wait for their analysis, some of them older than the retention
\* window of their kind; items ingested on the same day were ingested one
\* second apart.  No collaborator call raises.
InitShared ==
    /\ Constructed
    /\ clock = CleanupSlotStart
    /\ deadline = CleanupSlotStart + Horizon
    /\ failures = MaxFailures
    /\ servicebus_client = TRUE
    /\ blobs = NoBlobs
    /\ \E foods \in [FoodIds -> SharedItems], having \in SharedMedicalIds :
          /\ food_container =
                [x \in {y \in FoodIds : foods[y] # "absent"} |->
                    IF foods[x] = "old_pending"
                    THEN PendingItem(x, UserOf("food", x),
                                     clock - (Days(FoodRetentionDays) + x), "food_analysis")
                    ELSE IF foods[x] = "pending"
                    THEN PendingItem(x, UserOf("food", x), clock - (Days(1) + x),
                                     "food_analysis")
                    ELSE StoredItem(x, UserOf("food", x), clock - (Days(1) + x),
                                    "food_analysis")]
          /\ medical_container =
                [x \in having |->
                    PendingItem(x, UserOf("medical", x),
                                clock - (Days(MedicalRetentionDays) + 1), "medical_document")]

\* The process is started as the daily slot opens, over a store where each
\* user has at most one food item, of the last day; collaborator calls raise
\* in up to MaxFailures generations or queries.
InitDailyRetry ==
    /\ Constructed
    /\ clock = SlotStart(0)
    /\ deadline = SlotStart(0) + Horizon
    /\ failures = 0
    /\ \E n \in [Users -> 0..1] : food_container = FoodHistory(n, Days(1), clock)
    /\ medical_container = EmptyContainer
    /\ blobs = NoBlobs
    /\ servicebus_client = TRUE

\* the ages and types of the stored medical items, by item id, when the
\* payloads of the medical items are followed: younger than both retention
\* windows, between the two, past both, and critical past both
PayloadAges ==
    <<Days(FoodRetentionDays) - Days(1), Days(FoodRetentionDays) + Days(1),
      Days(MedicalRetentionDays) + Days(1), Days(MedicalRetentionDays) + Days(1)>>
PayloadTypes == <<"medical_document", "medical_document", "medical_document", "critical">>

\* the blob of medical-documents that holds the payload of a medical item
\* (item.get('documentPath'))
PayloadOf(item) == item.id

\* The process is started as the monthly window opens, over medical items
\* whose payload blobs were uploaded, and last modified, when the items were
\* ingested.  The blobs' last_modified, given by the storage client library,
\* carry a time zone or do not.
InitPayloads ==
    /\ Constructed
    /\ clock = CleanupSlotStart
    /\ failures = 0
    /\ servicebus_client = TRUE
    /\ deadline = CleanupSlotStart + CleanupSleep + Horizon
    /\ food_container = EmptyContainer
    /\ \E medicals \in SUBSET (1..Len(PayloadAges)), aware \in BOOLEAN :
          /\ medical_container =
                [x \in medicals |-> StoredItem(x, 1, clock - PayloadAges[x], PayloadTypes[x])]
          /\ blobs = [NoBlobs EXCEPT !["medical-documents"] =
                        [b \in {PayloadOf(medical_container[x]) : x \in medicals} |->
                            [last_modified |-> clock - PayloadAges[b], aware |-> aware]]]

\* The process is started with a Service Bus client configured; the queue is
\* empty and receives up to MaxMessages messages.
InitBus ==
    /\ Constructed
    /\ EmptyStore
    /\ clock = SlotStart(0)
    /\ failures = 0
    /\ deadline = SlotStart(0) + Horizon
    /\ servicebus_client = TRUE

\* The process is started as the daily slot opens, with or without a Service
\* Bus client, over empty stores and an empty queue.
InitLoops ==
    /\ Constructed
    /\ EmptyStore
    /\ clock = SlotStart(0)
    /\ failures = 0
    /\ deadline = SlotStart(0) + Horizon
    /\ servicebus_client \in BOOLEAN

\* ------------------------------------------------------------- environment
\* The ingestion path stores a new WorkItem in pending status, stamped with
\* the current time.
Submit(kind) ==
    /\ cur = "none"
    /\ submitted["food"] + submitted["medical"] < MaxItems
    /\ LET id == submitted[kind] + 1
           doc == [id |-> id, userId |-> UserOf(kind, id), timestamp |-> UtcNow,
                   type |-> IF kind = "food" THEN "food_analysis" ELSE "medical_document",
                   status |-> "pending", hasResult |-> FALSE,
                   error |-> <<>>, processedAt |-> <<>>]
       IN /\ submitted' = [submitted EXCEPT ![kind] = id]
          /\ IF kind = "food"
             THEN food_container' = Upsert(food_container, doc)
                  /\ UNCHANGED medical_container
             ELSE medical_container' = Upsert(medical_container, doc)
                  /\ UNCHANGED food_container
    /\ UNCHANGED <<jobVars, running, timeVars, startedAt, status, wake, cur, failures, drainVars, dailyVars>>

\* a document without a 'status' key: c.status is undefined in a query
NoStatus == "undefined"

\* analyze_food_image / analyze_medical_document of the API: the upload is
\* analysed in the request and its record is created with the analysis
\* results, a timestamp and a type, and without a status.
Ingest(kind) ==
    /\ cur = "none"
    /\ submitted["food"] + submitted["medical"] < MaxItems
    /\ LET id == submitted[kind] + 1
           record == [id |-> id, userId |-> UserOf(kind, id), timestamp |-> UtcNow,
                      type |-> IF kind = "food" THEN "food_analysis" ELSE "medical_document",
                      status |-> NoStatus, hasResult |-> TRUE,
                      error |-> <<>>, processedAt |-> <<>>]
       IN /\ submitted' = [submitted EXCEPT ![kind] = id]
          /\ IF kind = "food"
             THEN food_container' = Upsert(food_container, record)
                  /\ UNCHANGED medical_container
             ELSE medical_container' = Upsert(medical_container, record)
                  /\ UNCHANGED food_container
    /\ UNCHANGED <<jobVars, running, timeVars, startedAt, status, wake, cur, failures, drainVars, dailyVars>>

\* No task is runnable: time passes until the next sleep ends.
Elapse ==
    /\ cur = "none"
    /\ \E t \in TaskNames : status[t] = "waiting"
    /\ \A t \in TaskNames : status[t] = "waiting" => wake[t] > clock
    /\ \E t \in TaskNames :
          /\ status[t] = "waiting"
          /\ \A u \in TaskNames : status[u] = "waiting" => wake[t] <= wake[u]
          /\ wake[t] <= EndOfTime \/ ~running
          /\ clock' = wake[t]
    /\ UNCHANGED <<jobVars, running, skew, clockSteps, startedAt, status, wake, cur, storeVars,
                   envVars, drainVars, dailyVars>>

\* A time synchronisation sets the system wall clock back by k seconds; the
\* monotonic clock, and with it every pending sleep, is unaffected.  The step
\* is taken when a task is about to come back from its sleep, where the
\* program first observes it.
ClockStepBack(k) ==
    /\ \E t \in TaskNames : Runnable(t)
    /\ clockSteps < MaxClockSteps
    /\ skew' = skew - k
    /\ clockSteps' = clockSteps + 1
    /\ UNCHANGED <<jobVars, running, clock, startedAt, status, wake, cur, storeVars,
                   envVars, drainVars, dailyVars>>

\* ---------------------------------------------------------------- lifecycle
\* start(): self.running = True, then the tasks are created.  `tasks` are the
\* created tasks whose steps the specification follows.
Start(tasks) ==
    /\ startedAt = <<>>
    /\ running' = TRUE
    /\ startedAt' = <<UtcNow>>
    /\ status' = [t \in TaskNames |-> IF t \in tasks THEN "waiting" ELSE "new"]
    /\ wake' = [t \in TaskNames |-> clock]
    /\ UNCHANGED <<jobVars, timeVars, cur, storeVars, envVars, drainVars, dailyVars>>

\* mutant: start() creating the Service Bus task whether a client exists or not
AllTasks == TaskNames

\* the tasks start() creates: the four loops and, `if servicebus_client:`,
\* process_service_bus_messages
StartedTasks ==
    {"drainer", "daily", "cleanup", "trend"}
        \cup (IF servicebus_client THEN {"bus"} ELSE {})

\* stop() run from outside the event loop (another thread, a signal handler)
\* while a task holds the loop
StopFromOutside ==
    /\ running
    /\ cur # "none"
    /\ running' = FALSE
    /\ UNCHANGED <<jobVars, timeVars, startedAt, status, wake, cur, storeVars, envVars,
                   drainVars, dailyVars>>

\* stop(): self.running = False.  A coroutine of the same event loop: it runs
\* while no task holds the loop, and the tasks observe it at their next wake-up.
Stop ==
    /\ running
    /\ \E t \in TaskNames : Runnable(t)
    /\ running' = FALSE
    /\ UNCHANGED <<jobVars, timeVars, startedAt, status, wake, cur, storeVars, envVars,
                   drainVars, dailyVars>>

\* `while self.running:` is false when task t comes back from its sleep
LoopExit(t) ==
    /\ Runnable(t)
    /\ ~running
    /\ status' = [status EXCEPT ![t] = "done"]
    /\ UNCHANGED <<jobVars, running, timeVars, startedAt, wake, cur, storeVars, envVars,
                   drainVars, dailyVars>>

\* ------------------------------------------------- process_pending_analyses
\* The iteration ends: `await asyncio.sleep(60)`, in the try block (normal end)
\* or in `except Exception` (an exception left a query or an item's analysis).
DrainEnd(exception, now) ==
    /\ pc' = "idle"
    /\ pos' = 1
    /\ aborted' = exception
    /\ Sleep("drainer", DrainSleep, now)

\* The start of an iteration: the two pending queries.  Either query may raise.
DrainQuery ==
    /\ Runnable("drainer")
    /\ running
    /\ processed' = <<>>
    /\ upsertLog' = <<>>
    /\ \/ \* the food query raises
          /\ failures < MaxFailures
          /\ failures' = failures + 1
          /\ pending_food' = <<>>
          /\ pending_medical' = <<>>
          /\ DrainEnd(TRUE, clock)
       \/ \* the medical query raises
          /\ failures < MaxFailures
          /\ failures' = failures + 1
          /\ \E sf \in QueryPendingAsc(food_container) : pending_food' = sf
          /\ pending_medical' = <<>>
          /\ DrainEnd(TRUE, clock)
       \/ \* both queries return
          /\ UNCHANGED failures
          /\ \E sf \in QueryPendingAsc(food_container) : pending_food' = sf
          /\ \E sm \in QueryPendingAsc(medical_container) : pending_medical' = sm
          /\ IF pending_food' = <<>> /\ pending_medical' = <<>>
             THEN DrainEnd(FALSE, clock)
             ELSE /\ pc' = IF pending_food' # <<>> THEN "food" ELSE "medical"
                  /\ pos' = 1
                  /\ cur' = "drainer"
                  /\ UNCHANGED <<wake, aborted>>
    /\ UNCHANGED <<jobVars, running, timeVars, startedAt, status, storeVars, submitted,
                   fetches, gateway, faulted, dailyVars>>

\* the history of one item's analysis
Record(key, fault, hfault, r) ==
    /\ failures' = failures + Cost(fault, hfault)
    /\ processed' = Append(processed, key)
    /\ upsertLog' = upsertLog \o
          [i \in 1..Len(r.calls) |->
              [item |-> key, status |-> r.calls[i].doc.status, applied |-> r.calls[i].applied]]
    /\ fetches' = [fetches EXCEPT ![key] = @ + r.downloads]
    /\ gateway' = [gateway EXCEPT ![key] = @ + r.invocations]
    /\ faulted' = [faulted EXCEPT ![key] =
                      @ \cup ({fault} \ {"none"}) \cup (IF hfault THEN {"handler"} ELSE {})]

\* `for item in pending_food: await self.process_food_analysis(item)`, one item
ProcessFood(fault, hfault) ==
    /\ cur = "drainer"
    /\ pc = "food"
    /\ fault = "none" => ~hfault
    /\ failures + Cost(fault, hfault) <= MaxFailures
    /\ clock + CallSeconds <= EndOfTime
    /\ LET item == pending_food[pos]
           r == process_food_analysis(item, fault, hfault, UtcNow + CallSeconds)
       IN /\ food_container' = ApplyUpserts(food_container, r.calls)
          /\ Record(<<"food", item.id>>, fault, hfault, r)
          /\ clock' = clock + CallSeconds
          /\ IF r.raised THEN DrainEnd(TRUE, clock')
             ELSE IF pos < Len(pending_food)
                  THEN pos' = pos + 1 /\ UNCHANGED <<pc, aborted, wake, cur>>
             ELSE IF pending_medical # <<>>
                  THEN pc' = "medical" /\ pos' = 1 /\ UNCHANGED <<aborted, wake, cur>>
             ELSE DrainEnd(FALSE, clock')
    /\ UNCHANGED <<jobVars, running, skew, clockSteps, startedAt, status, medical_container,
                   submitted, pending_food, pending_medical, dailyVars>>

\* `for item in pending_medical: await self.process_medical_analysis(item)`, one item
ProcessMedical(fault, hfault) ==
    /\ cur = "drainer"
    /\ pc = "medical"
    /\ fault = "none" => ~hfault
    /\ failures + Cost(fault, hfault) <= MaxFailures
    /\ clock + CallSeconds <= EndOfTime
    /\ LET item == pending_medical[pos]
           r == process_medical_analysis(item, fault, hfault, UtcNow + CallSeconds)
       IN /\ medical_container' = ApplyUpserts(medical_container, r.calls)
          /\ Record(<<"medical", item.id>>, fault, hfault, r)
          /\ clock' = clock + CallSeconds
          /\ IF r.raised THEN DrainEnd(TRUE, clock')
             ELSE IF pos < Len(pending_medical)
                  THEN pos' = pos + 1 /\ UNCHANGED <<pc, aborted, wake, cur>>
             ELSE DrainEnd(FALSE, clock')
    /\ UNCHANGED <<jobVars, running, skew, clockSteps, startedAt, status, food_container,
                   submitted, pending_food, pending_medical, dailyVars>>

\* ---------------------------------------------------- generate_daily_insights
\* the documents of a container
Docs(container) == {container[x] : x \in DOMAIN container}

\* "SELECT DISTINCT c.userId FROM c WHERE c.timestamp >= @cutoff_date", on both
\* containers
ActiveUsers(cutoff_date) ==
    {d.userId : d \in {e \in Docs(food_container) \cup Docs(medical_container) :
                          e.timestamp >= cutoff_date}}

\* "SELECT * FROM c WHERE c.userId = @userId AND c.timestamp >= @cutoff"
RecentOf(container, user_id, cutoff) ==
    {d \in Docs(container) : d.userId = user_id /\ d.timestamp >= cutoff}

\* the call of generate_user_daily_insights that raises ("none": no call raises)
DailyFaults == {"none", "query", "completion", "parse", "upsert"}

\* the three containers of the HealthCompanion database, by name
Containers ==
    [FoodHistory |-> food_container, MedicalRecords |-> medical_container,
     Recommendations |-> recommendations_container]

\* mutant: the record id carries the time of the save, not only its date
InsightIdWithTime(user_id, t) == <<user_id, "insights", t>>

\* f"{user_id}-insights-{datetime.utcnow().date().isoformat()}"
InsightId(user_id, t) == <<user_id, "insights", Date(t)>>

\* mutant: generate_user_daily_insights without `if not recent_food and not
\* recent_medical: return`
InsightsWithoutSkip(user_id, fault, t, stores) ==
    LET recent_cutoff == t - Days(RecentDays)
        recent == Cardinality(RecentOf(stores.FoodHistory, user_id, recent_cutoff))
                      + Cardinality(RecentOf(stores.MedicalRecords, user_id, recent_cutoff))
        saved == t + CallSeconds
        insight_record == [id |-> InsightId(user_id, saved), userId |-> user_id,
                           type |-> "daily_insights", generatedAt |-> saved,
                           dataRange |-> <<recent_cutoff, saved>>]
    IN [stores |-> [stores EXCEPT !.Recommendations = Upsert(@, insight_record)],
        t |-> saved,
        call |-> [user |-> user_id, entered |-> t, fault |-> fault, recent |-> recent,
                  completions |-> 1, saved |-> TRUE]]

\* mutant: generate_user_daily_insights deleting from FoodHistory the items it
\* has summarised
InsightsConsumingItems(user_id, fault, t, stores) ==
    LET recent_cutoff == t - Days(RecentDays)
        recent_food == RecentOf(stores.FoodHistory, user_id, recent_cutoff)
        recent_medical == RecentOf(stores.MedicalRecords, user_id, recent_cutoff)
        saved == t + CallSeconds
        insight_record == [id |-> InsightId(user_id, saved), userId |-> user_id,
                           type |-> "daily_insights", generatedAt |-> saved,
                           dataRange |-> <<recent_cutoff, saved>>]
        call == [user |-> user_id, entered |-> t, fault |-> fault,
                 recent |-> Cardinality(recent_food) + Cardinality(recent_medical),
                 completions |-> 0, saved |-> FALSE]
    IN IF fault = "query" THEN [stores |-> stores, t |-> t, call |-> call]
       ELSE IF recent_food = {} /\ recent_medical = {}
            THEN [stores |-> stores, t |-> t, call |-> call]
       ELSE IF fault \in {"completion", "parse", "upsert"}
            THEN [stores |-> stores, t |-> saved,
                  call |-> [call EXCEPT !.completions = 1]]
       ELSE [stores |-> [stores EXCEPT
                            !.Recommendations = Upsert(@, insight_record),
                            !.FoodHistory =
                                [x \in DOMAIN @ \ {d.id : d \in recent_food} |-> @[x]]],
             t |-> saved,
             call |-> [call EXCEPT !.completions = 1, !.saved = TRUE]]

\* mutant: generate_user_daily_insights saving a record with empty insights
\* when the completion raises or is not JSON
InsightsSavedOnError(user_id, fault, t, stores) ==
    LET recent_cutoff == t - Days(RecentDays)
        recent_food == RecentOf(stores.FoodHistory, user_id, recent_cutoff)
        recent_medical == RecentOf(stores.MedicalRecords, user_id, recent_cutoff)
        saved == t + CallSeconds
        insight_record == [id |-> InsightId(user_id, saved), userId |-> user_id,
                           type |-> "daily_insights", generatedAt |-> saved,
                           dataRange |-> <<recent_cutoff, saved>>]
        call == [user |-> user_id, entered |-> t, fault |-> fault,
                 recent |-> Cardinality(recent_food) + Cardinality(recent_medical),
                 completions |-> 0, saved |-> FALSE]
    IN IF fault = "query" THEN [stores |-> stores, t |-> t, call |-> call]
       ELSE IF recent_food = {} /\ recent_medical = {}
            THEN [stores |-> stores, t |-> t, call |-> call]
       ELSE IF fault = "upsert"
            THEN [stores |-> stores, t |-> saved,
                  call |-> [call EXCEPT !.completions = 1]]
       ELSE [stores |-> [stores EXCEPT !.Recommendations = Upsert(@, insight_record)],
             t |-> saved,
             call |-> [call EXCEPT !.completions = 1, !.saved = (fault = "none")]]

\* generate_user_daily_insights(user_id), entered at wall-clock time t with the
\* containers `stores`: the containers and the wall-clock time when it
\* returns, and what the call did (the recent items it found, the completions
\* it asked for, whether it saved a record).  Every exception is caught and
\* logged inside the function.
generate_user_daily_insights(user_id, fault, t, stores) ==
    LET recent_cutoff == t - Days(RecentDays)
        recent_food == RecentOf(stores.FoodHistory, user_id, recent_cutoff)
        recent_medical == RecentOf(stores.MedicalRecords, user_id, recent_cutoff)
        saved == t + CallSeconds
        insight_record == [id |-> InsightId(user_id, saved),
                           userId |-> user_id,
                           type |-> "daily_insights",
                           generatedAt |-> saved,
                           dataRange |-> <<recent_cutoff, saved>>]
        call == [user |-> user_id, entered |-> t, fault |-> fault,
                 recent |-> Cardinality(recent_food) + Cardinality(recent_medical),
                 completions |-> 0, saved |-> FALSE]
    IN IF fault = "query" THEN [stores |-> stores, t |-> t, call |-> call]
       ELSE IF recent_food = {} /\ recent_medical = {}
            THEN [stores |-> stores, t |-> t, call |-> call]
       ELSE IF fault \in {"completion", "parse", "upsert"}
            THEN [stores |-> stores, t |-> saved,
                  call |-> [call EXCEPT !.completions = 1]]
       ELSE [stores |-> [stores EXCEPT !.Recommendations = Upsert(@, insight_record)],
             t |-> saved,
             call |-> [call EXCEPT !.completions = 1, !.saved = TRUE]]

\* `for user_id in users: await self.generate_user_daily_insights(user_id)`
RECURSIVE ForEachUser(_, _, _, _)
ForEachUser(order, faults, t, stores) ==
    IF order = <<>> THEN [stores |-> stores, t |-> t, calls |-> <<>>]
    ELSE LET r == generate_user_daily_insights(Head(order), faults[Head(order)], t, stores)
             rest == ForEachUser(Tail(order), faults, r.t, r.stores)
         IN [stores |-> rest.stores, t |-> rest.t, calls |-> <<r.call>> \o rest.calls]

\* the number of users whose insight generation hits a raising call
Raised(faults) == Cardinality({u \in DOMAIN faults : faults[u] # "none"})

\* the trigger predicate: "Run daily at 6 AM UTC"
DailyTrigger(current_time) ==
    Hour(current_time) = DailyHour /\ Minute(current_time) = DailyMinute

\* One iteration of the loop of generate_daily_insights.
DailyIteration ==
    /\ Runnable("daily")
    /\ running
    /\ LET current_time == UtcNow
       IN /\ dailyEvals' = Append(dailyEvals, current_time)
          /\ IF DailyTrigger(current_time)
             THEN /\ dailyRuns' = Append(dailyRuns, current_time)
                  /\ \/ \* a users query raises: the loop's except
                        /\ failures < MaxFailures
                        /\ failures' = failures + 1
                        /\ UNCHANGED <<clock, storeVars, recommendations_container, insightLog>>
                     \/ \E order \in Orderings(ActiveUsers(current_time - Days(ActiveDays))) :
                        \E faults \in [ActiveUsers(current_time - Days(ActiveDays)) -> DailyFaults] :
                           LET r == ForEachUser(order, faults, current_time, Containers)
                           IN /\ failures + Raised(faults) <= MaxFailures
                              /\ failures' = failures + Raised(faults)
                              /\ clock + (r.t - current_time) <= EndOfTime
                              /\ clock' = clock + (r.t - current_time)
                              /\ food_container' = r.stores.FoodHistory
                              /\ medical_container' = r.stores.MedicalRecords
                              /\ recommendations_container' = r.stores.Recommendations
                              /\ insightLog' = insightLog \o r.calls
             ELSE UNCHANGED <<dailyRuns, clock, storeVars, recommendations_container,
                              insightLog, failures>>
    /\ Sleep("daily", DailySleep, clock')
    /\ UNCHANGED <<jobVars, running, skew, clockSteps, startedAt, status, submitted,
                   drainVars>>

\* ----------------------------------------------------- health_trend_analysis
\* the call of analyze_user_health_trends that raises ("none": no call raises)
TrendFaults == {"none", "query", "completion", "parse", "upsert"}

\* f"{user_id}-trends-{datetime.utcnow().date().isoformat()}"
TrendId(user_id, t) == <<user_id, "trends", Date(t)>>

\* mutant: analyze_user_health_trends with the minimum taken over food and
\* medical items together
TrendsCountingMedical(user_id, fault, t, stores) ==
    LET trend_cutoff == t - Days(TrendDays)
        food_history == RecentOf(stores.FoodHistory, user_id, trend_cutoff)
        medical_history == RecentOf(stores.MedicalRecords, user_id, trend_cutoff)
        saved == t + CallSeconds
        trend_record == [id |-> TrendId(user_id, saved), userId |-> user_id,
                         type |-> "health_trends", generatedAt |-> saved,
                         analysisRange |-> <<trend_cutoff, saved,
                             Cardinality(food_history) + Cardinality(medical_history)>>]
        call == [user |-> user_id, entered |-> t, fault |-> fault,
                 food |-> Cardinality(food_history),
                 medical |-> Cardinality(medical_history),
                 completions |-> 0, saved |-> FALSE]
    IN IF fault = "query" THEN [stores |-> stores, t |-> t, call |-> call]
       ELSE IF Cardinality(food_history) + Cardinality(medical_history) < MinFoodHistory
            THEN [stores |-> stores, t |-> t, call |-> call]
       ELSE IF fault \in {"completion", "parse", "upsert"}
            THEN [stores |-> stores, t |-> saved, call |-> [call EXCEPT !.completions = 1]]
       ELSE [stores |-> [stores EXCEPT !.Recommendations = Upsert(@, trend_record)],
             t |-> saved,
             call |-> [call EXCEPT !.completions = 1, !.saved = TRUE]]

\* analyze_user_health_trends(user_id), entered at wall-clock time t with the
\* containers `stores`: the containers and the wall-clock time when it
\* returns, and what the call did.  Every exception is caught and logged
\* inside the function.
analyze_user_health_trends(user_id, fault, t, stores) ==
    LET trend_cutoff == t - Days(TrendDays)
        food_history == RecentOf(stores.FoodHistory, user_id, trend_cutoff)
        medical_history == RecentOf(stores.MedicalRecords, user_id, trend_cutoff)
        saved == t + CallSeconds
        trend_record == [id |-> TrendId(user_id, saved),
                         userId |-> user_id,
                         type |-> "health_trends",
                         generatedAt |-> saved,
                         analysisRange |-> <<trend_cutoff, saved,
                             Cardinality(food_history) + Cardinality(medical_history)>>]
        call == [user |-> user_id, entered |-> t, fault |-> fault,
                 food |-> Cardinality(food_history),
                 medical |-> Cardinality(medical_history),
                 completions |-> 0, saved |-> FALSE]
    IN IF fault = "query" THEN [stores |-> stores, t |-> t, call |-> call]
       ELSE IF Cardinality(food_history) < MinFoodHistory
            THEN [stores |-> stores, t |-> t, call |-> call]
       ELSE IF fault \in {"completion", "parse", "upsert"}
            THEN [stores |-> stores, t |-> saved, call |-> [call EXCEPT !.completions = 1]]
       ELSE [stores |-> [stores EXCEPT !.Recommendations = Upsert(@, trend_record)],
             t |-> saved,
             call |-> [call EXCEPT !.completions = 1, !.saved = TRUE]]

\* mutant: the for loop of health_trend_analysis left at the first user whose
\* analysis raises
ForEachActiveUserUntilError(order, faults, t, stores) ==
    LET upto == IF \E i \in 1..Len(order) : faults[order[i]] # "none"
                THEN CHOOSE i \in 1..Len(order) :
                        /\ faults[order[i]] # "none"
                        /\ \A j \in 1..(i - 1) : faults[order[j]] = "none"
                ELSE Len(order)
        step[i \in 0..upto] ==
            IF i = 0 THEN [stores |-> stores, t |-> t, calls |-> <<>>]
            ELSE LET r == analyze_user_health_trends(order[i], faults[order[i]],
                                                     step[i - 1].t, step[i - 1].stores)
                 IN [stores |-> r.stores, t |-> r.t,
                     calls |-> Append(step[i - 1].calls, r.call)]
    IN step[upto]

\* `for user_id in active_users: await self.analyze_user_health_trends(user_id)`
RECURSIVE ForEachActiveUser(_, _, _, _)
ForEachActiveUser(order, faults, t, stores) ==
    IF order = <<>> THEN [stores |-> stores, t |-> t, calls |-> <<>>]
    ELSE LET r == analyze_user_health_trends(Head(order), faults[Head(order)], t, stores)
             rest == ForEachActiveUser(Tail(order), faults, r.t, r.stores)
         IN [stores |-> rest.stores, t |-> rest.t, calls |-> <<r.call>> \o rest.calls]

\* the trigger predicate: "Sunday at 8 AM UTC"
TrendTrigger(current_time) ==
    Weekday(current_time) = TrendWeekday /\ Hour(current_time) = TrendHour

\* One iteration of the loop of health_trend_analysis.
TrendIteration ==
    /\ Runnable("trend")
    /\ running
    /\ LET current_time == UtcNow
       IN /\ trendEvals' = Append(trendEvals, current_time)
          /\ IF TrendTrigger(current_time)
             THEN /\ trendRuns' = Append(trendRuns, current_time)
                  /\ \/ \* an active-users query raises: the loop's except
                        /\ failures < MaxFailures
                        /\ failures' = failures + 1
                        /\ UNCHANGED <<clock, storeVars, recommendations_container, trendLog>>
                     \/ \E order \in Orderings(ActiveUsers(current_time - Days(ActiveDays))) :
                        \E faults \in [ActiveUsers(current_time - Days(ActiveDays)) -> TrendFaults] :
                           LET r == ForEachActiveUser(order, faults, current_time, Containers)
                           IN /\ failures + Raised(faults) <= MaxFailures
                              /\ failures' = failures + Raised(faults)
                              /\ clock + (r.t - current_time) <= EndOfTime
                              /\ clock' = clock + (r.t - current_time)
                              /\ food_container' = r.stores.FoodHistory
                              /\ medical_container' = r.stores.MedicalRecords
                              /\ recommendations_container' = r.stores.Recommendations
                              /\ trendLog' = trendLog \o r.calls
             ELSE UNCHANGED <<trendRuns, clock, storeVars, recommendations_container,
                              trendLog, failures>>
    /\ Sleep("trend", TrendSleep, clock')
    /\ UNCHANGED <<running, skew, clockSteps, startedAt, status, submitted,
                   drainVars, dailyEvals, dailyRuns, insightLog, deadline, cleanupVars,
                   busVars>>

\* ---------------------------------------------------------- cleanup_old_data
\* container.delete_item(item=id, ...) / blob_client.delete_blob()
Delete(container, id) == [x \in DOMAIN container \ {id} |-> container[x]]

\* mutant: the food query with `c.timestamp <= @cutoff`
OldFoodItemsInclusive(cutoff) ==
    {d \in Docs(food_container) : d.timestamp <= cutoff}

\* "SELECT c.id, c.userId FROM c WHERE c.timestamp < @cutoff" on FoodHistory
OldFoodItems(cutoff) ==
    {d \in Docs(food_container) : d.timestamp < cutoff}

\* mutant: the medical query without `AND c.type != 'critical'`
OldMedicalItemsOfAnyType(cutoff) ==
    {d \in Docs(medical_container) : d.timestamp < cutoff}

\* "SELECT c.id, c.userId FROM c WHERE c.timestamp < @cutoff AND c.type !=
\* 'critical'" on MedicalRecords
OldMedicalItems(cutoff) ==
    {d \in Docs(medical_container) : d.timestamp < cutoff /\ d.type # "critical"}

\* The collaborator call of a cleanup run that raises: `call` names it, `at`
\* is the blob container it is made on (0: not a blob call), `k` the position
\* of the delete in its for loop (0: not a delete).
CleanupFaults ==
    [call : {"none", "food_query", "medical_query"}, at : {0}, k : {0}]
        \cup [call : {"food_delete", "medical_delete"}, at : {0}, k : 1..MaxSwept]
        \cup [call : {"list_blobs"}, at : 1..Len(ContainerNames), k : {0}]
        \cup [call : {"delete_blob"}, at : 1..Len(ContainerNames), k : 1..MaxSwept]

\* `for item in order: container.delete_item(item['id'], ...)`, where the
\* failAt-th call raises (0: none does): the container afterwards, whether the
\* exception left the loop, and the deletes attempted
RECURSIVE DeleteEach(_, _, _)
DeleteEach(container, order, failAt) ==
    IF order = <<>> THEN [container |-> container, raised |-> FALSE, attempts |-> <<>>]
    ELSE IF failAt = 1
         THEN [container |-> container, raised |-> TRUE, attempts |-> <<Head(order)>>]
    ELSE LET rest == DeleteEach(Delete(container, Head(order)), Tail(order), failAt - 1)
         IN [container |-> rest.container, raised |-> rest.raised,
             attempts |-> <<Head(order)>> \o rest.attempts]

\* `blob.last_modified < cutoff_datetime` raises TypeError when last_modified
\* carries a time zone: cutoff_datetime, parsed from utcnow().isoformat(), has none
Comparable(blob) == ~blob.aware

\* the blobs of a container that cleanup_old_blobs appends to blobs_to_delete
BlobsToDelete(container, cutoff) ==
    {b \in DOMAIN container : container[b].last_modified < cutoff}

\* cleanup_old_blobs(cutoff_date) from container i on, `store` being the blob
\* containers: every exception ends the function (its except logs it)
RECURSIVE cleanup_old_blobs(_, _, _, _, _)
cleanup_old_blobs(i, cutoff, store, orders, fault) ==
    IF i > Len(ContainerNames) THEN [blobs |-> store, raised |-> FALSE, attempts |-> <<>>]
    ELSE LET name == ContainerNames[i]
         IN IF fault.call = "list_blobs" /\ fault.at = i
            THEN [blobs |-> store, raised |-> TRUE, attempts |-> <<>>]
            ELSE IF \E b \in DOMAIN store[name] : ~Comparable(store[name][b])
            THEN [blobs |-> store, raised |-> TRUE, attempts |-> <<>>]
            ELSE LET r == DeleteEach(store[name], orders[i],
                                     IF fault.call = "delete_blob" /\ fault.at = i
                                     THEN fault.k ELSE 0)
                     here == [n \in 1..Len(r.attempts) |-> <<name, r.attempts[n]>>]
                 IN IF r.raised
                    THEN [blobs |-> [store EXCEPT ![name] = r.container],
                          raised |-> TRUE, attempts |-> here]
                    ELSE LET rest == cleanup_old_blobs(i + 1, cutoff,
                                         [store EXCEPT ![name] = r.container], orders, fault)
                         IN [blobs |-> rest.blobs, raised |-> rest.raised,
                             attempts |-> here \o rest.attempts]

\* The body of cleanup_old_data at wall-clock time current_time: the stores
\* afterwards.  An exception of a query or of a delete_item leaves the body
\* for the loop's except.
CleanupBody(current_time, fault, food_order, medical_order, blob_orders) ==
    LET cleanup_cutoff == current_time - Days(FoodRetentionDays)
        unchanged == [food |-> food_container, medical |-> medical_container,
                      blobs |-> blobs, raised |-> TRUE, attempts |-> <<>>]
        f == DeleteEach(food_container, food_order,
                        IF fault.call = "food_delete" THEN fault.k ELSE 0)
        m == DeleteEach(medical_container, medical_order,
                        IF fault.call = "medical_delete" THEN fault.k ELSE 0)
        b == cleanup_old_blobs(1, cleanup_cutoff, blobs, blob_orders, fault)
        fa == [n \in 1..Len(f.attempts) |-> <<"food", f.attempts[n]>>]
        ma == [n \in 1..Len(m.attempts) |-> <<"medical", m.attempts[n]>>]
    IN IF fault.call = "food_query" THEN unchanged
       ELSE IF f.raised
            THEN [unchanged EXCEPT !.food = f.container, !.attempts = fa]
       ELSE IF fault.call = "medical_query"
            THEN [unchanged EXCEPT !.food = f.container, !.attempts = fa]
       ELSE IF m.raised
            THEN [unchanged EXCEPT !.food = f.container, !.medical = m.container,
                                   !.attempts = fa \o ma]
       ELSE [food |-> f.container, medical |-> m.container, blobs |-> b.blobs,
             raised |-> FALSE, attempts |-> fa \o ma \o b.attempts]

\* the ids of a set of documents
Ids(docs) == {d.id : d \in docs}

\* the trigger predicate: "First day of month at 2 AM UTC"
CleanupTrigger(current_time) ==
    DayOfMonth(current_time) = CleanupDay /\ Hour(current_time) = CleanupHour

\* One iteration of the loop of cleanup_old_data.
CleanupIteration ==
    /\ Runnable("cleanup")
    /\ running
    /\ LET current_time == UtcNow
           cutoff == current_time - Days(FoodRetentionDays)
           old_medical_cutoff == current_time - Days(MedicalRetentionDays)
       IN /\ cleanupEvals' = Append(cleanupEvals, current_time)
          /\ IF CleanupTrigger(current_time)
             THEN /\ cleanupRuns' = Append(cleanupRuns, current_time)
                  /\ clock + CallSeconds <= EndOfTime
                  /\ clock' = clock + CallSeconds
                  /\ \E fault \in CleanupFaults :
                     \E food_order \in Orderings(Ids(OldFoodItems(cutoff))) :
                     \E medical_order \in Orderings(Ids(OldMedicalItems(old_medical_cutoff))) :
                     \E blob_orders \in
                            [1..Len(ContainerNames) ->
                                UNION {Orderings(BlobsToDelete(blobs[ContainerNames[i]], cutoff)) :
                                          i \in 1..Len(ContainerNames)}] :
                        LET r == CleanupBody(current_time, fault, food_order,
                                             medical_order, blob_orders)
                        IN /\ \A i \in 1..Len(ContainerNames) :
                                 blob_orders[i] \in
                                     Orderings(BlobsToDelete(blobs[ContainerNames[i]], cutoff))
                           /\ fault.call = "food_delete" => fault.k <= Len(food_order)
                           /\ fault.call = "medical_delete" => fault.k <= Len(medical_order)
                           /\ fault.call = "delete_blob" => fault.k <= Len(blob_orders[fault.at])
                           /\ failures + (IF fault.call = "none" THEN 0 ELSE 1) <= MaxFailures
                           /\ failures' = failures + (IF fault.call = "none" THEN 0 ELSE 1)
                           /\ food_container' = r.food
                           /\ medical_container' = r.medical
                           /\ blobs' = r.blobs
                           /\ swept' = <<[now |-> current_time, fault |-> fault,
                                          food |-> food_container,
                                          medical |-> medical_container,
                                          blobs |-> blobs,
                                          attempts |-> r.attempts]>>
             ELSE UNCHANGED <<cleanupRuns, clock, failures, storeVars, blobs, swept>>
    /\ Sleep("cleanup", CleanupSleep, clock')
    /\ UNCHANGED <<running, skew, clockSteps, startedAt, status, submitted, drainVars,
                   dailyVars, deadline, trendVars, busVars>>

\* ------------------------------------------------ process_service_bus_messages
\* the message types handle_notification_message knows, and their handlers
KnownTypes == {"urgent_health_alert", "daily_reminder", "analysis_request"}

\* The bodies of the messages sent: text that is not JSON, JSON that is not an
\* object, or an object whose 'type' is a known one or another one.
Bodies == {"not_json", "non_object", "other"} \cup KnownTypes

\* mutant: a dispatch with a final `else` that takes the message as an
\* analysis request
HandlersWithDefault(message_type) ==
    IF message_type = "urgent_health_alert" THEN {"process_urgent_health_alert"}
    ELSE IF message_type = "daily_reminder" THEN {"process_daily_reminder"}
    ELSE {"process_analysis_request"}

\* the if / elif chain of handle_notification_message: the handlers awaited
Handlers(message_type) ==
    IF message_type = "urgent_health_alert" THEN {"process_urgent_health_alert"}
    ELSE IF message_type = "daily_reminder" THEN {"process_daily_reminder"}
    ELSE IF message_type = "analysis_request" THEN {"process_analysis_request"}
    ELSE {}

\* handle_notification_message(message_data), where the awaited handler raises
\* when handler_raises: the handlers awaited, the exception caught by its
\* `except Exception` ("none" when there is none), and whether an exception
\* leaves the function.
handle_notification_message(body, handler_raises) ==
    IF body = "non_object"
    THEN [handlers |-> {}, caught |-> "AttributeError", raised |-> FALSE]
    ELSE [handlers |-> Handlers(body),
          caught |-> IF Handlers(body) # {} /\ handler_raises THEN "handler" ELSE "none",
          raised |-> FALSE]

\* The body of `for msg in receiver:` for one message: json.loads, the
\* dispatch, complete_message, and abandon_message in the except block.
\* complete_raises: the call of complete_message raises; abandon_raises: the
\* call of abandon_message, when it is made, raises, and the exception leaves
\* the for loop.
ProcessMessage(msg, handler_raises, complete_raises, abandon_raises) ==
    LET parsed == msg.body # "not_json"
        h == IF parsed THEN handle_notification_message(msg.body, handler_raises)
             ELSE [handlers |-> {}, caught |-> "none", raised |-> FALSE]
        excepted == ~parsed \/ h.raised \/ complete_raises
    IN [id |-> msg.id, body |-> msg.body, handlers |-> h.handlers, caught |-> h.caught,
        complete_calls |-> IF parsed /\ ~h.raised THEN 1 ELSE 0,
        complete_raised |-> parsed /\ ~h.raised /\ complete_raises,
        completed |-> parsed /\ ~h.raised /\ ~complete_raises,
        abandon_calls |-> IF excepted THEN 1 ELSE 0,
        abandoned |-> excepted /\ ~abandon_raises,
        raised |-> excepted /\ abandon_raises]

\* another service sends a notification message to the queue
BusSend(body) ==
    /\ sent < MaxMessages
    /\ sent' = sent + 1
    /\ queue' = Append(queue, [id |-> sent + 1, body |-> body, deliveries |-> 0])
    /\ UNCHANGED <<running, timeVars, startedAt, status, wake, cur, storeVars, submitted,
                   failures, drainVars, dailyVars, deadline, trendVars, cleanupVars, busLog,
                   servicebus_client>>

\* `while self.running:` is true: the receiver is opened and iterated.  The
\* iteration blocks inside the synchronous client, so the task keeps the
\* event loop until the receiver raises.  start() creates the task only when
\* a client exists, so the task never takes `if not servicebus_client: return`.
BusReceive ==
    /\ Runnable("bus")
    /\ servicebus_client
    /\ running
    /\ cur' = "bus"
    /\ UNCHANGED <<running, timeVars, startedAt, status, wake, storeVars, envVars,
                   drainVars, dailyVars, jobVars>>

\* the receiver yields the first message of the queue, which is processed and
\* settled: removed when completed, made available again when abandoned (or
\* dead-lettered after MaxDeliveries deliveries).  When abandon_message raises
\* too, the message is left unsettled, to be delivered again when its lock
\* expires, and the exception ends the receiver loop: the outer except, sleep(30).
BusMessage(handler_raises, complete_raises) ==
    /\ cur = "bus"
    /\ queue # <<>>
    /\ \E abandon_raises \in BOOLEAN :
          LET msg == [Head(queue) EXCEPT !.deliveries = @ + 1]
              r == ProcessMessage(msg, handler_raises, complete_raises, abandon_raises)
              cost == IF complete_raises \/ abandon_raises THEN 1 ELSE 0
          IN /\ handler_raises => Handlers(msg.body) # {}
             /\ abandon_raises => r.abandon_calls > 0
             /\ failures + cost <= MaxFailures
             /\ failures' = failures + cost
             /\ busLog' = Append(busLog, r)
             /\ queue' = IF ~r.completed /\ msg.deliveries < MaxDeliveries
                         THEN Append(Tail(queue), msg)
                         ELSE Tail(queue)
             /\ IF r.raised THEN Sleep("bus", BusErrorSleep, clock)
                ELSE UNCHANGED <<wake, cur>>
    /\ UNCHANGED <<running, timeVars, startedAt, status, storeVars, submitted,
                   drainVars, dailyVars, deadline, trendVars, cleanupVars, sent,
                   servicebus_client>>

\* No message is available: the receiver, opened without max_wait_time,
\* waits for one inside the synchronous client, and time passes, to one
\* second after the end of the next sleep of another task.
BusWait ==
    /\ cur = "bus"
    /\ queue = <<>>
    /\ \E t \in TaskNames \ {"bus"} :
          /\ status[t] = "waiting"
          /\ wake[t] >= clock
          /\ \A u \in TaskNames \ {"bus"} :
                (status[u] = "waiting" /\ wake[u] >= clock) => wake[t] <= wake[u]
          /\ wake[t] + 1 <= EndOfTime
          /\ clock' = wake[t] + 1
    /\ UNCHANGED <<running, skew, clockSteps, startedAt, status, wake, cur, storeVars,
                   envVars, drainVars, dailyVars, jobVars>>

\* the receiver raises (the connection is lost): the loop's except, sleep(30)
BusReceiverError ==
    /\ cur = "bus"
    /\ failures < MaxFailures
    /\ failures' = failures + 1
    /\ Sleep("bus", BusErrorSleep, clock)
    /\ UNCHANGED <<running, timeVars, startedAt, status, storeVars, submitted,
                   drainVars, dailyVars, jobVars>>

Next ==
    \/ \E k \in Kinds : Submit(k)
    \/ Elapse
    \/ Start(PipelineTasks)
    \/ Stop
    \/ \E t \in TaskNames : LoopExit(t)
    \/ DrainQuery
    \/ \E f \in Faults, h \in BOOLEAN : ProcessFood(f, h)
    \/ \E f \in Faults, h \in BOOLEAN : ProcessMedical(f, h)
    \/ DailyIteration

NextClock ==
    \/ Next
    \/ \E k \in 1..MaxStepBack : ClockStepBack(k)

\* the steps followed when only the daily insights task is followed
NextDaily ==
    \/ Start({"daily"})
    \/ Elapse
    \/ Stop
    \/ \E t \in TaskNames : LoopExit(t)
    \/ DailyIteration

\* the daily insights task over users' recent and older items
SpecDaily == InitDaily /\ [][NextDaily]_vars

NextDailyClock ==
    \/ NextDaily
    \/ \E k \in 1..MaxStepBack : ClockStepBack(k)

\* the daily insights task under a wall clock that may be set back
SpecDailyClock == InitDailyClock /\ [][NextDailyClock]_vars

\* the daily insights task when collaborator calls raise in up to MaxFailures
\* generations or queries and the wall clock may be set back
SpecDailyRetry == InitDailyRetry /\ [][NextDailyClock]_vars

\* the steps followed when the API ingests uploads and the drainer is followed
NextIngest ==
    \/ \E k \in Kinds : Ingest(k)
    \/ Start({"drainer"})
    \/ Elapse
    \/ Stop
    \/ \E t \in TaskNames : LoopExit(t)
    \/ DrainQuery

\* the drainer over the records the API stores
SpecIngest == Init /\ [][NextIngest]_vars

\* the steps followed when only the cleanup task is followed
NextCleanup ==
    \/ Start({"cleanup"})
    \/ Elapse
    \/ Stop
    \/ \E t \in TaskNames : LoopExit(t)
    \/ CleanupIteration

\* the monthly cleanup task over aged items and blobs
SpecCleanup == InitCleanup /\ [][NextCleanup]_vars

\* the steps followed when the drainer, the cleanup task and the daily task
\* are followed together, while the processor runs
NextShared ==
    \/ Start({"drainer", "cleanup", "daily"})
    \/ Elapse
    \/ DrainQuery
    \/ \E f \in Faults, h \in BOOLEAN : ProcessFood(f, h)
    \/ \E f \in Faults, h \in BOOLEAN : ProcessMedical(f, h)
    \/ CleanupIteration
    \/ DailyIteration

\* the drainer, the cleanup task and the daily task over one store
SpecShared == InitShared /\ [][NextShared]_vars

\* the monthly cleanup task over medical items and their payload blobs
SpecPayloads == InitPayloads /\ [][NextCleanup]_vars

\* the steps followed when only the Service Bus task is followed
NextBus ==
    \/ Start({"bus"})
    \/ Elapse
    \/ Stop
    \/ \E t \in TaskNames : LoopExit(t)
    \/ \E b \in Bodies : BusSend(b)
    \/ BusReceive
    \/ \E h, c \in BOOLEAN : BusMessage(h, c)
    \/ BusReceiverError

\* the Service Bus task and the senders of its queue
SpecBus == InitBus /\ [][NextBus]_vars

\* the steps followed when the two insight jobs are followed
NextJobs ==
    \/ Start({"daily", "trend"})
    \/ Elapse
    \/ Stop
    \/ \E t \in TaskNames : LoopExit(t)
    \/ DailyIteration
    \/ TrendIteration

\* the daily insights task and the weekly trend task over users' histories
SpecJobs == InitJobs /\ [][NextJobs]_vars

\* the steps of the tasks start() creates, of time and of the queue's senders
LoopSteps ==
    \/ Elapse
    \/ \E t \in TaskNames : LoopExit(t)
    \/ DrainQuery
    \/ DailyIteration
    \/ TrendIteration
    \/ CleanupIteration
    \/ BusReceive
    \/ \E h, c \in BOOLEAN : BusMessage(h, c)
    \/ BusWait

\* the steps followed when every task start() creates is followed and no
\* WorkItem is pending
NextLoops ==
    \/ Start(StartedTasks)
    \/ Stop
    \/ StopFromOutside
    \/ BusSend("daily_reminder")
    \/ BusReceiverError
    \/ LoopSteps

\* The loops of the processor from start() to stop().  The event loop runs a
\* task whose sleep has ended, and a call that can return does return.
SpecLoops == InitLoops /\ [][NextLoops]_vars /\ WF_vars(LoopSteps)

\* the steps followed when the drainer and the Service Bus task are followed
\* and WorkItems are submitted
NextRun ==
    \/ \E k \in Kinds : Submit(k)
    \/ Elapse
    \/ Start({"drainer", "bus"})
    \/ Stop
    \/ StopFromOutside
    \/ \E t \in TaskNames : LoopExit(t)
    \/ DrainQuery
    \/ \E f \in Faults, h \in BOOLEAN : ProcessFood(f, h)
    \/ \E f \in Faults, h \in BOOLEAN : ProcessMedical(f, h)
    \/ BusSend("daily_reminder")
    \/ BusReceive
    \/ \E h, c \in BOOLEAN : BusMessage(h, c)
    \/ BusWait
    \/ BusReceiverError

\* the drainer of pending WorkItems next to the Service Bus task
SpecRun == Init /\ [][NextRun]_vars

\* the steps followed when only the weekly trend task is followed
NextTrend ==
    \/ Start({"trend"})
    \/ Elapse
    \/ Stop
    \/ \E t \in TaskNames : LoopExit(t)
    \/ TrendIteration

\* the weekly trend task over users' histories
SpecTrend == InitTrend /\ [][NextTrend]_vars

NextTrendClock ==
    \/ NextTrend
    \/ \E k \in 1..MaxStepBack : ClockStepBack(k)

\* the weekly trend task under a wall clock that may be set back
SpecTrendClock == InitTrendClock /\ [][NextTrendClock]_vars

\* collaborators that may fail, under a wall clock that is never adjusted
Spec == Init /\ [][Next]_vars

\* reliable collaborators, under a wall clock that may be set back
SpecClock == InitClock /\ [][NextClock]_vars

\* ================================================================== claims
Terminal == {"completed", "failed"}

\* the stored status of a container changes only from pending to a terminal one
StatusSteps(before, after) ==
    \A id \in DOMAIN before \cap DOMAIN after :
        before[id].status # after[id].status =>
            before[id].status = "pending" /\ after[id].status \in Terminal

\* C1: in every step, the stored status of every WorkItem either stays as it
\* is or goes from pending to completed or from pending to failed; a completed
\* or failed item never changes its status again.
C1_StatusOnlyLeavesPending ==
    [][/\ StatusSteps(food_container, food_container')
       /\ StatusSteps(medical_container, medical_container')]_vars

\* C1 witness: the drainer has completed one item and failed another, and a
\* later iteration has started
C1_Witness ==
    /\ \E k \in Kinds : \E id \in DOMAIN Container(k) : Container(k)[id].status = "completed"
    /\ \E k \in Kinds : \E id \in DOMAIN Container(k) : Container(k)[id].status = "failed"
    /\ Len(dailyEvals) >= 2
    /\ clock >= SlotStart(0) + DrainSleep

\* the createdAt, in the query snapshot, of an item processed in this iteration
CreatedAt(key) ==
    LET list == IF key[1] = "food" THEN pending_food ELSE pending_medical
    IN list[CHOOSE i \in 1..Len(list) : list[i].id = key[2]].timestamp

\* C8: the food items processed in one drainer iteration are processed in
\* non-decreasing createdAt order.
C8_FoodInCreatedOrder ==
    \A i, j \in 1..Len(processed) :
        (i < j /\ processed[i][1] = "food" /\ processed[j][1] = "food")
            => CreatedAt(processed[i]) <= CreatedAt(processed[j])

\* C8 witness: one iteration has processed two food items created at
\* different times
C8_Witness ==
    /\ Len(processed) = 2
    /\ processed[1][1] = "food"
    /\ processed[2][1] = "food"
    /\ pending_food[1].timestamp < pending_food[2].timestamp

\* ---------------------------------------------------------------- C2 .. C7
\* the stored document of an item
Stored(key) == Container(key[1])[key[2]]

\* the items of the query snapshot of the current (or last) drainer iteration
Snapshot ==
    {<<"food", pending_food[i].id>> : i \in 1..Len(pending_food)}
        \cup {<<"medical", pending_medical[i].id>> : i \in 1..Len(pending_medical)}

\* the drainer is between two iterations
BetweenIterations == cur = "none" /\ pc = "idle"

\* the last iteration's queries both returned
QueriesReturned == ~(aborted /\ processed = <<>>)

\* C2: when a drainer iteration whose queries returned has ended, every item
\* of its snapshot is stored as completed or failed, whichever call raised
\* during the iteration.
C2_SnapshotTerminalAtEnd ==
    (BetweenIterations /\ QueriesReturned) =>
        \A key \in Snapshot : Stored(key).status \in Terminal

\* C3: an item whose payload download raised is stored as failed with a
\* non-empty error, and is fetched once and never sent to the gateway.
C3_FetchFailureIsFinal ==
    \A key \in Items :
        "download" \in faulted[key] =>
            /\ Stored(key).status = "failed"
            /\ Stored(key).error # <<>>
            /\ fetches[key] = 1
            /\ gateway[key] = 0

\* C4: an item for which the gateway call raised, or whose completion did not
\* parse as JSON, is stored as failed with its error and processedAt set, and
\* is not stored as completed.
C4_InferenceFailureStoredFailed ==
    \A key \in Items :
        faulted[key] \cap {"inference", "parse"} # {} =>
            /\ Stored(key).status = "failed"
            /\ Stored(key).error # <<>>
            /\ Stored(key).processedAt # <<>>

\* C5: the payload of an item is downloaded, and the gateway invoked for it,
\* in at most one drainer iteration.
C5_ProcessedAtMostOnce ==
    \A key \in Items : fetches[key] <= 1 /\ gateway[key] <= 1

\* the upsert calls this iteration has issued for an item
UpsertsOf(key) == SelectSeq(upsertLog, LAMBDA c : c.item = key)

\* C6 (as stated): exactly one upsert is issued for each item processed in
\* the iteration, on every path.
C6_ExactlyOneUpsert ==
    \A i \in 1..Len(processed) : Len(UpsertsOf(processed[i])) = 1

\* C6 (amended): for each item processed in the iteration one upsert is
\* issued, or two when the first, of the completed item, raised: the except
\* block then upserts the item as failed.  At most one of them is applied.
C6_OneUpsertUnlessCompletedUpsertRaises ==
    \A i \in 1..Len(processed) :
        LET calls == UpsertsOf(processed[i])
        IN /\ \/ Len(calls) = 1
              \/ /\ Len(calls) = 2
                 /\ calls[1].status = "completed" /\ ~calls[1].applied
                 /\ calls[2].status = "failed"
           /\ Cardinality({n \in 1..Len(calls) : calls[n].applied}) <= 1

\* C6 witness: the upsert of a completed item raised and the item was
\* upserted again as failed
C6_Witness ==
    \E i \in 1..Len(processed) :
        /\ Len(UpsertsOf(processed[i])) = 2
        /\ Stored(processed[i]).status = "failed"

ProcessingOrder ==
    [i \in 1..Len(pending_food) |-> <<"food", pending_food[i].id>>]
        \o [i \in 1..Len(pending_medical) |-> <<"medical", pending_medical[i].id>>]

C9_AtMostOncePerDate ==
    \A i, j \in 1..Len(dailyRuns) :
        i # j => Date(dailyRuns[i]) # Date(dailyRuns[j])

\* the processor was started before the daily slot of date d opened, has been
\* running since under a wall clock that was never adjusted, and the slot is over
RanThroughSlot(d) ==
    /\ startedAt # <<>>
    /\ startedAt[1] < SlotStart(d)
    /\ running
    /\ status["daily"] = "waiting"
    /\ clockSteps = 0
    /\ UtcNow >= SlotEnd(d)

\* C10: while the processor is running the daily job fires on every calendar
\* day, whatever the durations of the iterations between the 60-second sleeps.
C10_FiresEveryDay ==
    \A d \in 0..Date(UtcNow) :
        RanThroughSlot(d) => \E i \in 1..Len(dailyRuns) : Date(dailyRuns[i]) = d

\* ------------------------------------------------------------- C11 .. C20
\* C11: the weekly trend job body runs at most once in one Sunday 08:00
\* window, for any timing of the evaluations of its trigger.
C11_AtMostOncePerWeek ==
    \A i, j \in 1..Len(trendRuns) :
        i # j => Date(trendRuns[i]) # Date(trendRuns[j])

\* the time a call of generate_user_daily_insights or analyze_user_health_trends
\* that saved a record stamped it with
SavedAt(call) == call.entered + CallSeconds

\* the calls of generate_user_daily_insights that saved a record for user u on date d
SavesOf(u, d) ==
    SelectSeq(insightLog, LAMBDA c : c.user = u /\ c.saved /\ Date(SavedAt(c)) = d)

\* the daily InsightRecords stored for user u and date d
DailyRecords(u, d) ==
    {r \in Docs(recommendations_container) :
        r.type = "daily_insights" /\ r.userId = u /\ Date(r.generatedAt) = d}

\* C12: however many times the daily insight generation has saved a record
\* for a user on a date, the insight store holds exactly one daily record for
\* that user and date, and it is the one the last of these runs saved.
C12_OneDailyRecordPerUserAndDate ==
    \A u \in Users : \A d \in 0..Date(UtcNow) :
        LET saves == SavesOf(u, d)
        IN IF saves = <<>> THEN DailyRecords(u, d) = {}
           ELSE /\ Cardinality(DailyRecords(u, d)) = 1
                /\ \A r \in DailyRecords(u, d) : r.generatedAt = SavedAt(saves[Len(saves)])

\* C12 witness: the generation has saved a record twice for one user on one date
C12_Witness ==
    \E u \in Users : Len(SavesOf(u, Date(UtcNow))) = 2

\* the WorkItems and blobs the last cleanup run selected for deletion that
\* are still stored
LeftBehind ==
    LET run == swept[1]
        cutoff == run.now - Days(FoodRetentionDays)
        old_medical_cutoff == run.now - Days(MedicalRetentionDays)
    IN {<<"food", x>> : x \in {y \in DOMAIN food_container :
                                  food_container[y].timestamp < cutoff}}
       \cup {<<"medical", x>> : x \in {y \in DOMAIN medical_container :
                                  /\ medical_container[y].timestamp < old_medical_cutoff
                                  /\ medical_container[y].type # "critical"}}
       \cup UNION {{<<c, b>> : b \in {y \in DOMAIN blobs[c] :
                                  blobs[c][y].last_modified < cutoff}} : c \in DOMAIN blobs}

\* C13: a cleanup run in which no collaborator call raised has deleted the
\* food items older than now - 730 days and the medical items that are not
\* critical and older than now - 1095 days, and nothing else: every other
\* item is stored as it was.
C13_CleanupDeletesExactlyExpired ==
    (swept # <<>> /\ swept[1].fault.call = "none") =>
        LET run == swept[1]
        IN /\ DOMAIN food_container =
                  {x \in DOMAIN run.food :
                      ~(run.food[x].timestamp < run.now - Days(FoodRetentionDays))}
           /\ DOMAIN medical_container =
                  {x \in DOMAIN run.medical :
                      ~(/\ run.medical[x].timestamp < run.now - Days(MedicalRetentionDays)
                        /\ run.medical[x].type # "critical")}
           /\ \A x \in DOMAIN food_container : food_container[x] = run.food[x]
           /\ \A x \in DOMAIN medical_container : medical_container[x] = run.medical[x]

\* C13 witness: a run without a failure deleted a food item and a medical
\* item, and kept a food item dated 729 days ago, one dated exactly 730 days
\* ago and an old critical medical item
C13_Witness ==
    /\ swept # <<>>
    /\ swept[1].fault.call = "none"
    /\ \E x \in DOMAIN swept[1].food : x \notin DOMAIN food_container
    /\ \E x \in DOMAIN swept[1].medical : x \notin DOMAIN medical_container
    /\ \E x \in DOMAIN food_container :
          food_container[x].timestamp = swept[1].now - Days(FoodRetentionDays) + Days(1)
    /\ \E x \in DOMAIN food_container :
          food_container[x].timestamp = swept[1].now - Days(FoodRetentionDays)
    /\ \E x \in DOMAIN medical_container :
          /\ medical_container[x].type = "critical"
          /\ medical_container[x].timestamp < swept[1].now - Days(MedicalRetentionDays)

\* C14: no step deletes a medical item tagged critical, whatever its age.
C14_CriticalNeverDeleted ==
    [][\A x \in DOMAIN medical_container :
           medical_container[x].type = "critical" => x \in DOMAIN medical_container']_vars

\* C14 witness: a cleanup run deleted an old medical item and an old critical
\* one is still stored
C14_Witness ==
    /\ swept # <<>>
    /\ \E x \in DOMAIN swept[1].medical : x \notin DOMAIN medical_container
    /\ \E x \in DOMAIN medical_container :
          /\ medical_container[x].type = "critical"
          /\ medical_container[x].timestamp < swept[1].now - Days(MedicalRetentionDays)

\* C15: after a cleanup run in which one delete raised, every other item and
\* blob the run selected has been deleted: at most the one whose delete
\* raised is left.
C15_OtherDeletionsStillDone ==
    (swept # <<>> /\ swept[1].fault.call \in {"food_delete", "medical_delete", "delete_blob"})
        => Cardinality(LeftBehind) <= 1

\* C16: after a cleanup run in which no collaborator call raised, no stored
\* blob was last modified before now - 730 days, and every blob last modified
\* at or after it is still stored.
C16_OldBlobsSwept ==
    (swept # <<>> /\ swept[1].fault.call = "none") =>
        LET run == swept[1]
            cutoff == run.now - Days(FoodRetentionDays)
        IN \A c \in DOMAIN blobs :
              /\ \A b \in DOMAIN blobs[c] : ~(blobs[c][b].last_modified < cutoff)
              /\ \A b \in DOMAIN run.blobs[c] :
                    ~(run.blobs[c][b].last_modified < cutoff) => b \in DOMAIN blobs[c]

\* the food items of a user stamped at or after a cutoff
FoodSince(user_id, cutoff) == Cardinality(RecentOf(food_container, user_id, cutoff))

\* C17: a call of the weekly analysis for a user with fewer than 5 food items
\* in the 90-day window asks for no completion and saves no record, however
\* many medical items the user has; with 5 or more food items the completion
\* is asked for (unless a history query raised).  Every stored trend record
\* is of a user with at least 5 food items in its window.
C17_TrendNeedsFiveFoodItems ==
    /\ \A i \in 1..Len(trendLog) :
          /\ trendLog[i].food < MinFoodHistory =>
                trendLog[i].completions = 0 /\ ~trendLog[i].saved
          /\ (trendLog[i].food >= MinFoodHistory /\ trendLog[i].fault # "query") =>
                trendLog[i].completions = 1
    /\ \A r \in Docs(recommendations_container) :
          r.type = "health_trends" =>
              FoodSince(r.userId, r.analysisRange[1]) >= MinFoodHistory

\* C17 witness: in one weekly run a user with 4 food items and a medical item
\* was skipped and a user with at least 5 food items got a trend record
C17_Witness ==
    /\ \E i \in 1..Len(trendLog) :
          /\ trendLog[i].food = MinFoodHistory - 1
          /\ trendLog[i].medical >= 1
          /\ trendLog[i].completions = 0
    /\ \E r \in Docs(recommendations_container) : r.type = "health_trends"

\* C18: a call of the daily generation for a user without any item of the
\* last 7 days asks for no completion and saves no record; every stored daily
\* record is of a user with at least one food or medical item in its 7-day
\* window.
C18_DailyNeedsRecentItem ==
    /\ \A i \in 1..Len(insightLog) :
          insightLog[i].recent = 0 =>
              insightLog[i].completions = 0 /\ ~insightLog[i].saved
    /\ \A r \in Docs(recommendations_container) :
          r.type = "daily_insights" =>
              \/ RecentOf(food_container, r.userId, r.dataRange[1]) # {}
              \/ RecentOf(medical_container, r.userId, r.dataRange[1]) # {}

\* C18 witness: the daily run enumerated, as active in the last 30 days, a
\* user without an item of the last 7 days, and stored no record for that
\* user, while another user got one
C18_Witness ==
    /\ \E i \in 1..Len(insightLog) :
          /\ insightLog[i].recent = 0
          /\ \A r \in Docs(recommendations_container) : r.userId # insightLog[i].user
    /\ \E r \in Docs(recommendations_container) : r.type = "daily_insights"

\* C19: a received message whose type is none of the three known types is
\* dispatched to no handler, and is completed and not abandoned (unless the
\* call of complete_message itself raised).
C19_UnknownTypeCompleted ==
    \A i \in 1..Len(busLog) :
        busLog[i].body = "other" =>
            /\ busLog[i].handlers = {}
            /\ busLog[i].caught = "none"
            /\ busLog[i].complete_calls = 1
            /\ ~busLog[i].complete_raised =>
                   busLog[i].completed /\ ~busLog[i].abandoned

\* C19 witness: a message of an unknown type was completed, and one of a
\* known type was dispatched to its handler
C19_Witness ==
    /\ \E i \in 1..Len(busLog) :
          busLog[i].body = "other" /\ busLog[i].completed /\ ~busLog[i].abandoned
    /\ \E i \in 1..Len(busLog) : busLog[i].handlers # {}

\* C20: a message whose dispatch ended in an error (its handler raised, or
\* the dispatch itself raised) is abandoned and not completed.
C20_DispatchErrorAbandons ==
    \A i \in 1..Len(busLog) :
        busLog[i].caught # "none" => busLog[i].abandoned /\ ~busLog[i].completed

\* ------------------------------------------------------------- C21 .. C30
\* processedAt goes with the status in every stored document of a container
ProcessedAtSet(container) ==
    \A id \in DOMAIN container :
        /\ container[id].status = "pending" => container[id].processedAt = <<>>
        /\ container[id].status \in Terminal => container[id].processedAt # <<>>

\* a processedAt that is stored is not changed by a step
ProcessedAtKept(before, after) ==
    \A id \in DOMAIN before \cap DOMAIN after :
        before[id].processedAt # <<>> => after[id].processedAt = before[id].processedAt

\* C28: a stored WorkItem has no processedAt while it is pending and has one
\* once it is completed or failed (it is written by the upsert that writes the
\* terminal status), and no step changes a stored processedAt.
C28_ProcessedAtSetOnce ==
    /\ [](ProcessedAtSet(food_container) /\ ProcessedAtSet(medical_container))
    /\ [][/\ ProcessedAtKept(food_container, food_container')
          /\ ProcessedAtKept(medical_container, medical_container')]_vars

\* C28 witness: a later drainer iteration has processed an item while an
\* item brought to a terminal state by an earlier iteration is stored with
\* the processedAt of that time
C28_Witness ==
    /\ processed # <<>>
    /\ \E key \in Items :
          /\ key[2] \in DOMAIN Container(key[1])
          /\ Stored(key).status \in Terminal
          /\ Stored(key).processedAt # <<>>
          /\ \A i \in 1..Len(processed) : processed[i] # key
          /\ \E i \in 1..Len(processed) :
                /\ Stored(processed[i]).processedAt # <<>>
                /\ Stored(processed[i]).processedAt[1] > Stored(key).processedAt[1]

\* C29: a stored WorkItem carries an error if and only if its status is failed.
C29_ErrorIffFailed ==
    \A k \in Kinds : \A id \in DOMAIN Container(k) :
        Container(k)[id].error # <<>> <=> Container(k)[id].status = "failed"

\* C29 witness: one item is stored as failed with its error, after the upsert
\* of its completed form raised, and another as completed without an error
C29_Witness ==
    /\ \E key \in Items :
          /\ key[2] \in DOMAIN Container(key[1])
          /\ "upsert" \in faulted[key]
          /\ Stored(key).status = "failed"
          /\ Stored(key).error # <<>>
    /\ \E key \in Items :
          /\ key[2] \in DOMAIN Container(key[1])
          /\ Stored(key).status = "completed"
          /\ Stored(key).error = <<>>

\* the drainer has just made its two queries, and both returned
JustQueried ==
    /\ status["drainer"] = "waiting"
    /\ processed = <<>>
    /\ ~aborted
    /\ cur = "drainer" \/ (cur = "none" /\ wake["drainer"] = clock + DrainSleep)

\* the items stored before the present instant
StoredEarlier ==
    {key \in Items : key[2] \in DOMAIN Container(key[1]) /\ Stored(key).timestamp < UtcNow}

\* the two halves of C30: every stored WorkItem has a status of pending,
\* completed or failed; every item stored before a drainer iteration's
\* queries was selected by them unless it is already in a terminal state
StoredStatusKnown ==
    \A k \in Kinds : \A id \in DOMAIN Container(k) :
        Container(k)[id].status \in {"pending"} \cup Terminal
StoredItemsSelected ==
    (JustQueried /\ clockSteps = 0) =>
        \A key \in StoredEarlier : key \in Snapshot \/ Stored(key).status \in Terminal

\* C30: every WorkItem the ingestion path stores is stored as pending, so
\* every stored WorkItem has a status of pending, completed or failed and is
\* selected by the drainer's next queries.
C30_IngestedPendingAndSelected == StoredStatusKnown /\ StoredItemsSelected

\* the users of the calls of a log
UsersOf(log) == {log[i].user : i \in 1..Len(log)}

\* a record of the given type is stored for the user
HasRecord(user_id, type) ==
    \E r \in Docs(recommendations_container) : r.userId = user_id /\ r.type = type

\* C26: in a run of the daily job or of the weekly job whose users query
\* returned, the per-user function is called for every enumerated user,
\* whichever call raised for another user, and every user for whom no call
\* raised and who meets the job's data precondition has its record stored.
C26_OtherUsersStillAnalysed ==
    /\ (dailyRuns # <<>> /\ (failures = 0 \/ insightLog # <<>>)) =>
          /\ UsersOf(insightLog) = ActiveUsers(dailyRuns[Len(dailyRuns)] - Days(ActiveDays))
          /\ \A i \in 1..Len(insightLog) :
                (insightLog[i].fault = "none" /\ insightLog[i].recent > 0) =>
                    insightLog[i].saved /\ HasRecord(insightLog[i].user, "daily_insights")
    /\ (trendRuns # <<>> /\ (failures = 0 \/ trendLog # <<>>)) =>
          /\ UsersOf(trendLog) = ActiveUsers(trendRuns[Len(trendRuns)] - Days(ActiveDays))
          /\ \A i \in 1..Len(trendLog) :
                (trendLog[i].fault = "none" /\ trendLog[i].food >= MinFoodHistory) =>
                    trendLog[i].saved /\ HasRecord(trendLog[i].user, "health_trends")

\* a run in which a call raised for the first user analysed, and a user
\* analysed after it has its record stored
LaterUserSaved(log, type) ==
    /\ Len(log) >= 2
    /\ log[1].fault # "none"
    /\ ~log[1].saved
    /\ \E i \in 2..Len(log) : log[i].saved /\ HasRecord(log[i].user, type)

\* C26 witness: a weekly run in which a call raised for the first user
\* analysed and the next user's trend record was stored
C26_Witness == LaterUserSaved(trendLog, "health_trends")

\* the same in a daily run
C26_DailyWitness == LaterUserSaved(insightLog, "daily_insights")

\* the documents a step adds to, or replaces in, the insight store
Written ==
    {recommendations_container'[id] : id \in
        {x \in DOMAIN recommendations_container' :
            \/ x \notin DOMAIN recommendations_container
            \/ recommendations_container'[x] # recommendations_container[x]}}

\* C27: an iteration of the daily job or of the weekly job leaves the food
\* and medical WorkItem stores and the blob containers as they are, and the
\* documents it writes are InsightRecords of its own type.
C27_JobsWriteOnlyInsights ==
    [][/\ dailyEvals' # dailyEvals =>
             /\ UNCHANGED <<food_container, medical_container, blobs>>
             /\ \A r \in Written : r.type = "daily_insights"
       /\ trendEvals' # trendEvals =>
             /\ UNCHANGED <<food_container, medical_container, blobs>>
             /\ \A r \in Written : r.type = "health_trends"]_vars

\* C27 witness: a run has stored a record for a user, and the user's food
\* items of the window it summarises are stored
C27_Witness ==
    \E r \in Docs(recommendations_container) :
        \E d \in Docs(food_container) :
            d.userId = r.userId /\ d.timestamp >= r.generatedAt - Days(TrendDays)

\* every task start() created has left its loop
Exited == \A t \in TaskNames : status[t] # "waiting"

\* stop() has set the running flag to false
Stopped == startedAt # <<>> /\ ~running

\* C21: once stop() has set the running flag to false, every loop that was
\* started eventually exits, when every sleep ends and every call that can
\* return returns.
C21_StopEndsEveryLoop == Stopped ~> Exited

\* the same when the Service Bus task is not inside its receiver as the flag
\* is set
C21_StopEndsLoopsOutsideReceiver == (Stopped /\ cur # "bus") ~> Exited

\* a drainer iteration starts in this step
DrainerStarts == pc = "idle" /\ (pc' # "idle" \/ wake'["drainer"] # wake["drainer"])

\* C22: a drainer iteration that ends without an exception has processed
\* every item it had selected, whenever the flag was set; once the flag is
\* false no drainer iteration starts and the Service Bus task handles no
\* further message.
C22_FlagReadOnlyBetweenIterations ==
    /\ []((BetweenIterations /\ ~aborted) => processed = ProcessingOrder)
    /\ [][Stopped => (~DrainerStarts /\ busLog' = busLog)]_vars

\* the first half of C22, and its second half for the drainer alone
C22_IterationRunsToItsEnd ==
    /\ []((BetweenIterations /\ ~aborted) => processed = ProcessingOrder)
    /\ [][Stopped => ~DrainerStarts]_vars

\* the flag was set to false while the drainer was inside an iteration, which
\* then processed a further item
C22_StoppedInsideIteration ==
    /\ Stopped
    /\ BetweenIterations
    /\ ~aborted
    /\ Len(processed) = 2
    /\ Stored(processed[2]).processedAt # <<>>
    /\ status["drainer"] = "waiting"

\* the sleep of task t has ended and the Service Bus task holds the event loop
Starved(t) ==
    /\ running
    /\ cur = "bus"
    /\ status[t] = "waiting"
    /\ wake[t] < clock

\* the WorkItems stored as pending for longer than the drainer's interval
LongPending ==
    {key \in Items :
        /\ key[2] \in DOMAIN Container(key[1])
        /\ Stored(key).status = "pending"
        /\ Stored(key).timestamp + DrainSleep < UtcNow}

\* C23: while the processor runs with a Service Bus client, no other loop is
\* kept from its next iteration by the Service Bus task, whether a message is
\* available or not, and no WorkItem stays pending past the drainer's
\* interval while that task has the event loop.
C23_LoopsRunBesideConsumer ==
    /\ \A t \in TaskNames \ {"bus"} : ~Starved(t)
    /\ (running /\ cur = "bus") => LongPending = {}

\* C24: while running is true no loop has ended, and the drainer, after an
\* iteration that ended in its except block, is not kept waiting past the end
\* of its 60-second sleep.
C24_ErrorsEndNoLoop ==
    running =>
        /\ \A t \in TaskNames : status[t] # "done"
        /\ (aborted /\ status["drainer"] = "waiting") => clock <= wake["drainer"]

\* the first half of C24
C24_NoLoopEndsWhileRunning == running => \A t \in TaskNames : status[t] # "done"

\* C25: without a Service Bus client the Service Bus task is never created,
\* never holds the event loop, receives and settles no message, and the four
\* other loops are created by start().
C25_NoChannelNoConsumer ==
    ~servicebus_client =>
        /\ status["bus"] = "new"
        /\ cur # "bus"
        /\ busLog = <<>>
        /\ \A i \in 1..Len(queue) : queue[i].deliveries = 0
        /\ startedAt # <<>> => \A t \in TaskNames \ {"bus"} : status[t] # "new"

\* C25 witness: without a client, messages wait in the queue while the daily
\* job has run, the weekly and monthly triggers were evaluated and the
\* drainer and the daily loop have come back from their first sleep
C25_Witness ==
    /\ ~servicebus_client
    /\ running
    /\ Len(queue) = MaxMessages
    /\ dailyRuns # <<>>
    /\ Len(dailyEvals) >= 2
    /\ trendEvals # <<>>
    /\ cleanupEvals # <<>>
    /\ wake["drainer"] >= SlotStart(0) + 2 * DrainSleep

\* ------------------------------------------------------------- C31 .. C36
\* a drainer iteration is between its pending-item queries and its last upsert
InsideDrainerIteration == pc # "idle"

\* no loop other than the drainer takes a step: no trigger is evaluated, no
\* message is handled, no insight record or blob is written or deleted, and
\* no WorkItem leaves the store
OtherLoopsIdle ==
    /\ dailyEvals' = dailyEvals
    /\ trendEvals' = trendEvals
    /\ cleanupEvals' = cleanupEvals
    /\ busLog' = busLog
    /\ recommendations_container' = recommendations_container
    /\ blobs' = blobs
    /\ DOMAIN food_container \subseteq DOMAIN food_container'
    /\ DOMAIN medical_container \subseteq DOMAIN medical_container'

\* C31: from the pending-item queries of a drainer iteration to its last
\* upsert the drainer holds the event loop, and no step of another loop (a
\* trigger evaluation, a cleanup deletion, an insight read or write, a
\* message dispatch) is taken: loops interleave only at their sleeps.
C31_NoStepInsideDrainerIteration ==
    /\ [](InsideDrainerIteration => cur = "drainer")
    /\ [][InsideDrainerIteration => OtherLoopsIdle]_vars

\* C31 witness: the drainer has processed an item of its snapshot and has
\* more to process, while the sleeps of the cleanup task and of the daily
\* task have ended and neither has taken its first step
C31_Witness ==
    /\ InsideDrainerIteration
    /\ processed # <<>>
    /\ cleanupEvals = <<>>
    /\ dailyEvals = <<>>
    /\ \A t \in {"cleanup", "daily"} : status[t] = "waiting" /\ wake[t] < clock
    /\ \E d \in OldFoodItems(UtcNow - Days(FoodRetentionDays)) : d.status = "pending"

\* the item the drainer processes in this step
ProcessedNow == processed'[Len(processed')]

\* the documents of the current query snapshot, by item
SnapshotDoc(key) ==
    IF key[1] = "food"
    THEN {pending_food[i] : i \in {j \in 1..Len(pending_food) : pending_food[j].id = key[2]}}
    ELSE {pending_medical[i] :
             i \in {j \in 1..Len(pending_medical) : pending_medical[j].id = key[2]}}

\* the stored items whose status is completed or failed
TerminalItems ==
    {key \in Items : key[2] \in DOMAIN Container(key[1]) /\ Stored(key).status \in Terminal}

\* C32: a step in which the drainer processes an item writes only that item,
\* which is in the iteration's snapshot with status pending; it removes no
\* WorkItem, and every WorkItem stored as completed or failed, and so every
\* item that was so when the iteration started, is stored unchanged after it.
C32_DrainerWritesOnlySnapshotItems ==
    [][(processed' # processed /\ processed' # <<>>) =>
          /\ SnapshotDoc(ProcessedNow) # {}
          /\ \A d \in SnapshotDoc(ProcessedNow) : d.status = "pending"
          /\ DOMAIN food_container \subseteq DOMAIN food_container'
          /\ DOMAIN medical_container \subseteq DOMAIN medical_container'
          /\ \A key \in Items :
                (key[2] \in DOMAIN Container(key[1]) /\ key # ProcessedNow) =>
                    Stored(key)' = Stored(key)
          /\ \A key \in TerminalItems : Stored(key)' = Stored(key)]_vars

\* C32 witness: an iteration has processed an item while another item, which
\* it did not process, is stored as completed or failed since an earlier
\* iteration
C32_Witness ==
    /\ processed # <<>>
    /\ \E key \in TerminalItems :
          /\ \A i \in 1..Len(processed) : processed[i] # key
          /\ Stored(key).processedAt # <<>>
          /\ \E i \in 1..Len(processed) :
                /\ processed[i][2] \in DOMAIN Container(processed[i][1])
                /\ Stored(processed[i]).processedAt # <<>>
                /\ Stored(processed[i]).processedAt # Stored(key).processedAt

\* the ids of the items of `kind` that the delete_item calls of a cleanup run
\* removed: those it attempted, but for the one whose call raised
DeletedBy(run, kind) ==
    LET tried == SelectSeq(run.attempts, LAMBDA a : a[1] = kind)
        failed == IF run.fault.call = kind \o "_delete" THEN {tried[run.fault.k][2]} ELSE {}
    IN {tried[i][2] : i \in 1..Len(tried)} \ failed

\* the WorkItems the last cleanup run deleted
Deleted ==
    IF swept = <<>> THEN {}
    ELSE {key \in Items : key[2] \in DeletedBy(swept[1], key[1])}

\* C33: a WorkItem a cleanup run has deleted is not in the Work Item Store in
\* any later state, and no item of the snapshot of a drainer iteration in
\* progress has been deleted since the iteration's query, so that no drainer
\* upsert writes an item that was deleted after it was read.
C33_DeletedItemsStayDeleted ==
    /\ \A key \in Deleted : key[2] \notin DOMAIN Container(key[1])
    /\ InsideDrainerIteration => \A key \in Snapshot : key[2] \in DOMAIN Container(key[1])

\* C33 witness: the drainer analysed and upserted a pending item, the cleanup
\* run then deleted it, and the drainer has run a later iteration
C33_Witness ==
    /\ \E key \in Deleted : fetches[key] > 0
    /\ wake["drainer"] >= CleanupSlotStart + 2 * DrainSleep

\* the stored medical items whose payload blob is not in medical-documents
WithoutPayload ==
    {d \in Docs(medical_container) : PayloadOf(d) \notin DOMAIN blobs["medical-documents"]}

C34_PayloadsKeptWhenSweepRaises ==
    (swept # <<>> /\ \A b \in DOMAIN swept[1].blobs["medical-documents"] :
                        swept[1].blobs["medical-documents"][b].aware)
        => WithoutPayload = {}

\* the calls of generate_user_daily_insights made in this step
NewInsightCalls == {insightLog'[i] : i \in (Len(insightLog) + 1)..Len(insightLog')}

\* the insight records stored for a user
RecordsOf(container, user_id) == {r \in Docs(container) : r.userId = user_id}

\* C35: a call of generate_user_daily_insights in which the completion raises
\* or returns text that is not JSON saves no record, and the records stored
\* for its user are after the run what they were before it.
C35_FailedGenerationLeavesRecords ==
    [][\A c \in NewInsightCalls :
          c.fault \in {"completion", "parse"} =>
              /\ ~c.saved
              /\ RecordsOf(recommendations_container', c.user)
                     = RecordsOf(recommendations_container, c.user)]_vars

\* C35 witness: the completion of a user's generation raised or was not JSON
\* in a run made when a record of an earlier run of the same day was stored
\* for the user, and the record is still the earlier one
C35_Witness ==
    \E i \in 1..Len(insightLog) :
        /\ insightLog[i].fault \in {"completion", "parse"}
        /\ insightLog[i].completions > 0
        /\ \E r \in RecordsOf(recommendations_container, insightLog[i].user) :
              /\ r.generatedAt < insightLog[i].entered
              /\ r.id = InsightId(insightLog[i].user, insightLog[i].entered)

\* C36: for every delivery of a message exactly one of complete_message and
\* abandon_message is called, and the delivery ends settled by exactly one of
\* them, whatever raises while the message is processed.
C36_SettledExactlyOnce ==
    \A i \in 1..Len(busLog) :
        /\ busLog[i].complete_calls + busLog[i].abandon_calls = 1
        /\ busLog[i].completed # busLog[i].abandoned

\* the first half of C36: complete_message and abandon_message are never both
\* called for one delivery
C36_NeverBothIssued ==
    \A i \in 1..Len(busLog) : busLog[i].complete_calls + busLog[i].abandon_calls <= 1

\* the second half of C36: no delivery ends neither completed nor abandoned
C36_NeverUnsettled ==
    \A i \in 1..Len(busLog) : busLog[i].completed \/ busLog[i].abandoned

\* a message whose text is not JSON is abandoned and not completed
C36_UndecodableIsAbandoned ==
    \A i \in 1..Len(busLog) :
        (busLog[i].body = "not_json" /\ ~busLog[i].raised) =>
            /\ busLog[i].complete_calls = 0
            /\ busLog[i].abandoned
====
